---- MODULE Spec2Model ----
(***************************************************************************)
(* Model of scripts/json_flatten.py: flatten (a nested tree to a flat      *)
(* mapping of separator-joined path keys) and unflatten (the flat mapping  *)
(* back to a tree), and of the command-line scripts around them.  Spec     *)
(* runs flatten and unflatten; SpecFile runs json_flatten.process_file;    *)
(* SpecCsv runs csv_merge.main in rows mode; SpecEnv runs                  *)
(* env_template.main on one env file and then on another; SpecValidator    *)
(* runs data_validator.validate_csv and validate_json; SpecBatch runs       *)
(* yaml_json.batch_convert.                                                *)
(*                                                                         *)
(* A Python str is a sequence of one-character strings.  A JSON value is a *)
(* record [kind, val]: kind "scalar" with val the scalar's name, kind      *)
(* "dict" with val the sequence of <<key, value>> pairs in insertion order *)
(* (keys unique), kind "list" with val the sequence of the elements.       *)
(***************************************************************************)
EXTENDS Integers, Sequences, FiniteSets, TLC

VARIABLES mode, tree, separator, max_depth, flat, pos, result, prev, pc, aliases

\* What a script leaves behind: the file at its output path, what it printed
\* on standard output and on standard error, the value main returned (-1
\* while it has not), and the exception that left the call ("" when none).
VARIABLES out_file, stdout, stderr, exit, raised

\* json_flatten.process_file: the JSON document in the input file, the
\* arguments mode and output_path, the local `data` and the text returned.
VARIABLES document, file_mode, output_path, file_data, output

\* csv_merge: the input files, the arguments add_source, deduplicate and
\* --dry-run, the locals of _merge_by_rows, and the file and the line of it
\* the loops stand at.
VARIABLES inputs, add_source, deduplicate, dry_run, stats, all_rows, seen_rows, fieldnames,
          file_no, line_no

\* env_template: the two env files main is run on, one after the other, and
\* the run it is in; the arguments placeholder, patterns and keep_values;
\* the local `lines` of generate_template and the line of the file the loop
\* stands at; the template each run returned.  output_path, output and
\* dry_run are the ones above.
VARIABLES env_files, run, placeholder, patterns, keep_values, template_lines, env_pos, templates

flattenVars == <<mode, tree, separator, max_depth, flat, pos, result, prev, pc, aliases>>

worldVars == <<out_file, stdout, stderr, exit, raised>>

processVars == <<document, file_mode, output_path, file_data, output>>

csvVars == <<inputs, add_source, deduplicate, dry_run, stats, all_rows, seen_rows, fieldnames,
            file_no, line_no>>

envVars == <<env_files, run, placeholder, patterns, keep_values, template_lines, env_pos,
            templates>>

\* data_validator.validate_csv: the rows csv.DictReader yields, the rules and
\* skip_header, the ValidationResult, seen_values, and the row being read.
VARIABLES csv_rows, rules, skip_header, validation_result, seen_values, row_no

validatorVars == <<csv_rows, rules, skip_header, validation_result, seen_values, row_no>>

\* yaml_json.batch_convert: the files of input_dir, the two formats, whether
\* PyYAML can be imported, the list of matched files, stats, the file the
\* loop is at, and the files of output_dir.
VARIABLES input_dir, source_format, target_format, yaml_installed, files, batch_stats, file_idx,
          output_dir

batchVars == <<input_dir, source_format, target_format, yaml_installed, files, batch_stats,
              file_idx, output_dir>>

besideFlatten == <<worldVars, processVars, csvVars, envVars, validatorVars, batchVars>>

vars == <<flattenVars, worldVars, processVars, csvVars, envVars, validatorVars, batchVars>>

(***************************************************************************)
(* Bounds of the model.                                                    *)
(***************************************************************************)
MaxNodes == 4
MaxDeepNodes == 5
MaxEntries == 2
MaxSegments == 3
MaxDepthArg == 1

(***************************************************************************)
(* JSON values.                                                            *)
(***************************************************************************)
Scalar(v) == [kind |-> "scalar", val |-> v]
Dict(entries) == [kind |-> "dict", val |-> entries]
List(items) == [kind |-> "list", val |-> items]

None == Scalar("null")
EmptyDict == Dict(<<>>)
EmptyList == List(<<>>)

\* IsDict that does not take an empty dict for a dict.
IsNonEmptyDict(x) == x.kind = "dict" /\ Len(x.val) > 0

IsDict(x) == x.kind = "dict"
IsList(x) == x.kind = "list"

(***************************************************************************)
(* dict operations: key in d, d[key], d[key] = value, d.update(other).     *)
(***************************************************************************)
DictKeys(d) == {d.val[i][1] : i \in 1..Len(d.val)}

DictHas(d, key) == key \in DictKeys(d)

DictGet(d, key) == d.val[CHOOSE i \in 1..Len(d.val) : d.val[i][1] = key][2]

DictSet(d, key, value) ==
    IF DictHas(d, key)
    THEN Dict([i \in 1..Len(d.val) |->
                 IF d.val[i][1] = key THEN <<key, value>> ELSE d.val[i]])
    ELSE Dict(Append(d.val, <<key, value>>))

RECURSIVE DictUpdateFrom(_, _, _)
DictUpdateFrom(d, other, i) ==
    IF i > Len(other.val) THEN d
    ELSE DictUpdateFrom(DictSet(d, other.val[i][1], other.val[i][2]), other, i + 1)

DictUpdate(d, other) == DictUpdateFrom(d, other, 1)

(***************************************************************************)
(* list operations: lst[index] = value, and the padding loops              *)
(* "while len(current) <= index: current.append(filler)".                  *)
(***************************************************************************)
ListSet(lst, index, value) == List([lst.val EXCEPT ![index + 1] = value])

RECURSIVE PadTo(_, _, _)
PadTo(lst, index, filler) ==
    IF Len(lst.val) <= index THEN PadTo(List(Append(lst.val, filler)), index, filler)
    ELSE lst

(***************************************************************************)
(* str operations: isdigit, int, str(i), x in s, split.                    *)
(***************************************************************************)
Digits == <<"0", "1", "2", "3", "4", "5", "6", "7", "8", "9">>

DigitChars == {Digits[i] : i \in 1..10}

DigitValue(c) == (CHOOSE i \in 1..10 : Digits[i] = c) - 1

\* isdigit that is true of no string.
IsDigitNever(s) == FALSE

IsDigit(s) == Len(s) > 0 /\ \A i \in 1..Len(s) : s[i] \in DigitChars

RECURSIVE ToInt(_)
ToInt(s) ==
    IF Len(s) = 0 THEN 0
    ELSE 10 * ToInt(SubSeq(s, 1, Len(s) - 1)) + DigitValue(s[Len(s)])

RECURSIVE Str(_)
Str(i) == IF i < 10 THEN <<Digits[i + 1]>> ELSE Str(i \div 10) \o <<Digits[(i % 10) + 1]>>

OccursAt(s, sub, i) == i + Len(sub) - 1 <= Len(s) /\ SubSeq(s, i, i + Len(sub) - 1) = sub

Contains(s, sub) == \E i \in 1..(Len(s) + 1) : OccursAt(s, sub, i)

RECURSIVE Split(_, _)
Split(s, sep) ==
    IF Contains(s, sep)
    THEN LET i == CHOOSE j \in 1..Len(s) : OccursAt(s, sep, j)
                       /\ \A k \in 1..(j - 1) : ~OccursAt(s, sep, k)
         IN <<SubSeq(s, 1, i - 1)>> \o Split(SubSeq(s, i + Len(sep), Len(s)), sep)
    ELSE <<s>>

(***************************************************************************)
(* The separators of the model: the default, one other character, and one  *)
(* of two characters.                                                      *)
(***************************************************************************)
Dot == <<".">>
Slash == <<"/">>
DotDot == <<".", ".">>

(***************************************************************************)
(* flatten.  max_depth is {} for None and {d} for the integer d.           *)
(* FlattenItems is the loop over data.items() from the i-th pair on, and   *)
(* FlattenList the loop over enumerate(value) from the j-th element on;    *)
(* both carry the result dict built so far.                                *)
(***************************************************************************)
\* NewKey without the prefix: every level keyed by its own key alone.
NewKeyNoPrefix(prefix, sep, key) == key

NewKey(prefix, sep, key) == IF Len(prefix) > 0 THEN prefix \o sep \o key ELSE key

\* ListKey counting the elements from 1.
ListKeyOneBased(new_key, sep, i) == new_key \o sep \o Str(i + 1)

ListKey(new_key, sep, i) == new_key \o sep \o Str(i)

\* AtMaxDepth one level late: current_depth > max_depth.
AtMaxDepthLate(md, current_depth) == \E d \in md : current_depth > d

AtMaxDepth(md, current_depth) == \E d \in md : current_depth >= d

\* NestedPrefix passing list_key on: the inner list below its own index key.
NestedPrefixListKey(new_key, list_key) == list_key

\* The prefix of the call on {str(i): item} for an item that is a list.
NestedPrefix(new_key, list_key) == new_key

RECURSIVE FlattenItems(_, _, _, _, _, _, _)
RECURSIVE FlattenList(_, _, _, _, _, _, _)

Flatten(data, sep, prefix, md, current_depth) ==
    FlattenItems(data, sep, prefix, md, current_depth, 1, EmptyDict)

FlattenItems(data, sep, prefix, md, current_depth, i, res) ==
    IF i > Len(data.val) THEN res
    ELSE LET key == data.val[i][1]
             value == data.val[i][2]
             new_key == NewKey(prefix, sep, key)
             res2 == IF AtMaxDepth(md, current_depth)
                         THEN DictSet(res, new_key, value)
                     ELSE IF IsDict(value)
                         THEN DictUpdate(res, Flatten(value, sep, new_key, md, current_depth + 1))
                     ELSE IF IsList(value)
                         THEN FlattenList(value, sep, new_key, md, current_depth, 0, res)
                     ELSE DictSet(res, new_key, value)
         IN FlattenItems(data, sep, prefix, md, current_depth, i + 1, res2)

FlattenList(value, sep, new_key, md, current_depth, i, res) ==
    IF i >= Len(value.val) THEN res
    ELSE LET item == value.val[i + 1]
             list_key == ListKey(new_key, sep, i)
             res2 == IF IsDict(item)
                         THEN DictUpdate(res, Flatten(item, sep, list_key, md, current_depth + 1))
                     ELSE IF IsList(item)
                         THEN DictUpdate(res, Flatten(Dict(<<<<Str(i), item>>>>), sep,
                                                      NestedPrefix(new_key, list_key),
                                                      md, current_depth + 1))
                     ELSE DictSet(res, list_key, item)
         IN FlattenList(value, sep, new_key, md, current_depth, i + 1, res2)

(***************************************************************************)
(* unflatten, one (key, value) pair of data.items().  Walk is the body of  *)
(* the outer loop from the segment parts[i] on, with `current` the         *)
(* container the walk stands in.  It yields how the pair ended ("ok": fell *)
(* through to the next pair; "return": one of the `return result`          *)
(* statements inside the loop; "raise": an exception left the function),   *)
(* `current` as the in-place mutations leave it, and in `cut` the places   *)
(* (segments from `current`, a list index as its decimal string) where an  *)
(* assignment put another object in the place of the one that was there.   *)
(***************************************************************************)
\* IsNextIndex looking at the final segment too.
IsNextIndexToEnd(parts, i) == i + 1 <= Len(parts) /\ IsDigit(parts[i + 1])

IsNextIndex(parts, i) == i + 1 < Len(parts) /\ IsDigit(parts[i + 1])

Fresh(is_next_index) == IF is_next_index THEN EmptyList ELSE EmptyDict

\* Coerce leaving the element as it is.
CoerceNever(lst, index, is_next_index) == lst

Coerce(lst, index, is_next_index) ==
    IF is_next_index /\ ~IsList(lst.val[index + 1]) THEN ListSet(lst, index, EmptyList)
    ELSE IF ~is_next_index /\ ~IsDict(lst.val[index + 1]) THEN ListSet(lst, index, EmptyDict)
    ELSE lst

\* Made putting a fresh container at part whether part is in current or not.
MadeAnew(current, part, is_next_index) == DictSet(current, part, Fresh(is_next_index))

\* current after "if part not in current: current[part] = [] if is_next_index else {}".
Made(current, part, is_next_index) ==
    IF DictHas(current, part) THEN current ELSE DictSet(current, part, Fresh(is_next_index))

RECURSIVE Walk(_, _, _, _)
Walk(current, parts, i, value) ==
    LET part == parts[i] IN
    IF i < Len(parts)
    THEN LET is_next_index == IsNextIndex(parts, i) IN
         IF IsDigit(part)
         THEN IF ~IsList(current) THEN [st |-> "return", node |-> current, cut |-> {}]
              ELSE LET index == ToInt(part)
                       padded == PadTo(current, index, Fresh(is_next_index))
                       grown == Coerce(padded, index, is_next_index)
                       r == Walk(grown.val[index + 1], parts, i + 1, value)
                   IN [st |-> r.st, node |-> ListSet(grown, index, r.node),
                       cut |-> (IF grown # padded THEN {<<Str(index)>>} ELSE {})
                                   \cup {<<Str(index)>> \o c : c \in r.cut}]
         ELSE IF ~IsDict(current) THEN [st |-> "raise", node |-> current, cut |-> {}]
              ELSE LET made == Made(current, part, is_next_index)
                       r == Walk(DictGet(made, part), parts, i + 1, value)
                   IN [st |-> r.st, node |-> DictSet(made, part, r.node),
                       cut |-> {<<part>> \o c : c \in r.cut}]
    ELSE IF IsDigit(part)
         THEN IF ~IsList(current) THEN [st |-> "return", node |-> current, cut |-> {}]
              ELSE [st |-> "ok",
                    node |-> ListSet(PadTo(current, ToInt(part), None), ToInt(part), value),
                    cut |-> {<<Str(ToInt(part))>>}]
         ELSE IF ~IsDict(current) THEN [st |-> "return", node |-> current, cut |-> {}]
              ELSE [st |-> "ok", node |-> DictSet(current, part, value), cut |-> {<<part>>}]

\* UnflattenPair splitting every key at the default separator.
UnflattenPairDefaultSeparator(res, key, value, sep) == Walk(res, Split(key, Dot), 1, value)

UnflattenPair(res, key, value, sep) ==
    IF Len(sep) = 0 THEN [st |-> "raise", node |-> res, cut |-> {}]
    ELSE Walk(res, Split(key, sep), 1, value)

(***************************************************************************)
(* Objects shared between the tree unflatten builds and its argument.      *)
(* "current[last_part] = value" stores the argument's own value object, so *)
(* a container value of the pair at position pos of data is, from then on, *)
(* the very object at the place `at` of result: [at, pos] is an alias.     *)
(* What a later pair writes below `at` is written into the argument's      *)
(* object; an assignment at `at` or above it (a cut) takes the object out  *)
(* of result and ends the alias.  Subtree(x, path) is the node of x at     *)
(* path; Shared(data, res, al) is data as the aliases al leave it.         *)
(***************************************************************************)
RECURSIVE Subtree(_, _)
Subtree(x, path) ==
    IF Len(path) = 0 THEN x
    ELSE IF IsList(x) THEN Subtree(x.val[ToInt(path[1]) + 1], Tail(path))
    ELSE Subtree(DictGet(x, path[1]), Tail(path))

LeadsTo(c, path) == Len(c) <= Len(path) /\ SubSeq(path, 1, Len(c)) = c

Kept(al, cut) == {a \in al : \A c \in cut : ~LeadsTo(c, a.at)}

Stored(parts) == [i \in 1..Len(parts) |-> IF IsDigit(parts[i]) THEN Str(ToInt(parts[i])) ELSE parts[i]]

\* The place of the final store of a pair: the longest of its cuts.
StoredAt(cut) == CHOOSE c \in cut : \A d \in cut : Len(d) <= Len(c)

Shared(data, res, al) ==
    Dict([p \in 1..Len(data.val) |->
            IF \E a \in al : a.pos = p
            THEN <<data.val[p][1], Subtree(res, (CHOOSE a \in al : a.pos = p).at)>>
            ELSE data.val[p]])

(***************************************************************************)
(* Python's == on JSON values: dicts compare as unordered key/value sets.  *)
(***************************************************************************)
RECURSIVE TreeEq(_, _)
TreeEq(x, y) ==
    /\ x.kind = y.kind
    /\ CASE x.kind = "scalar" -> x.val = y.val
         [] x.kind = "list" ->
                /\ Len(x.val) = Len(y.val)
                /\ \A i \in 1..Len(x.val) : TreeEq(x.val[i], y.val[i])
         [] x.kind = "dict" ->
                /\ DictKeys(x) = DictKeys(y)
                /\ \A k \in DictKeys(x) : TreeEq(DictGet(x, k), DictGet(y, k))

(***************************************************************************)
(* The inputs.  TreesOver(keys, n): every tree with a dict root, at most n *)
(* nodes below the root, mapping keys from `keys` and scalar leaves from   *)
(* Scalars.  TreeInputs: the separators flatten is called with and, for    *)
(* each, the keys and sizes of the trees: plain and digit-only keys; the   *)
(* empty key; a key that contains the separator; keys that end or start    *)
(* with a part of a two-character separator.  FlatInputs(sep): every flat  *)
(* mapping of at most MaxEntries pairs whose keys are at most MaxSegments  *)
(* segments from Segments joined by sep, with scalar values.               *)
(***************************************************************************)
Scalars == {Scalar("null"), Scalar("v1")}

Separators == {Dot, Slash, DotDot}

TreeInputs ==
    { [sep |-> Dot, keys |-> {<<"b">>, <<"0">>}, nodes |-> MaxDeepNodes],
      [sep |-> Dot, keys |-> {<<"b">>, <<>>}, nodes |-> MaxNodes],
      [sep |-> Dot, keys |-> {<<"b">>, <<"b", ".">>}, nodes |-> MaxNodes],
      [sep |-> Slash, keys |-> {<<"b">>, <<"b", ".">>}, nodes |-> MaxNodes],
      [sep |-> DotDot, keys |-> {<<"b">>, <<"b", ".">>, <<".", "b">>}, nodes |-> MaxNodes] }

\* {"a": [[1, 2], [3, 4]]} and what flatten is to return for it.
NestedListExample ==
    Dict(<<<<<<"a">>, List(<<List(<<Scalar("1"), Scalar("2")>>),
                            List(<<Scalar("3"), Scalar("4")>>)>>)>>>>)

NestedListFlat ==
    Dict(<<<<<<"a", ".", "0", ".", "0">>, Scalar("1")>>, <<<<"a", ".", "0", ".", "1">>, Scalar("2")>>,
           <<<<"a", ".", "1", ".", "0">>, Scalar("3")>>, <<<<"a", ".", "1", ".", "1">>, Scalar("4")>>>>)

Segments == {<<"b">>, <<"0">>, <<"1">>}

MaxDepths == {{}} \cup {{d} : d \in 0..MaxDepthArg}

RECURSIVE Values(_, _)
RECURSIVE DictEntries(_, _, _)
RECURSIVE ListItems(_, _)

Values(n, alphabet) ==
    (IF n = 1 THEN Scalars ELSE {})
        \cup {Dict(e) : e \in DictEntries(n - 1, alphabet, alphabet)}
        \cup {List(e) : e \in ListItems(n - 1, alphabet)}

DictEntries(n, keys, alphabet) ==
    IF n = 0 THEN {<<>>}
    ELSE UNION {{<<<<k, v>>>> \o rest : v \in Values(m, alphabet),
                                       rest \in DictEntries(n - m, keys \ {k}, alphabet)} :
                  k \in keys, m \in 1..n}

ListItems(n, alphabet) ==
    IF n = 0 THEN {<<>>}
    ELSE UNION {{<<v>> \o rest : v \in Values(m, alphabet), rest \in ListItems(n - m, alphabet)} :
                  m \in 1..n}

TreesOver(keys, nodes) == UNION {{Dict(e) : e \in DictEntries(n, keys, keys)} : n \in 0..nodes}

RECURSIVE Join(_, _)
Join(segs, sep) ==
    IF Len(segs) = 1 THEN segs[1]
    ELSE segs[1] \o sep \o Join(Tail(segs), sep)

RECURSIVE SegmentSeqs(_)
SegmentSeqs(n) ==
    IF n = 0 THEN {<<>>}
    ELSE {<<s>> \o rest : s \in Segments, rest \in SegmentSeqs(n - 1)}

FlatKeys(sep) == {Join(segs, sep) : segs \in UNION {SegmentSeqs(n) : n \in 1..MaxSegments}}

RECURSIVE FlatEntries(_, _)
FlatEntries(n, keys) ==
    IF n = 0 THEN {<<>>}
    ELSE {<<<<k, v>>>> \o rest : k \in keys, v \in Scalars, rest \in FlatEntries(n - 1, keys)}

FlatInputs(sep) ==
    {Dict(e) : e \in {f \in UNION {FlatEntries(n, FlatKeys(sep)) : n \in 0..MaxEntries} :
                        \A i, j \in 1..Len(f) : f[i][1] = f[j][1] => i = j}}

\* The values of a flat mapping that flatten cut at max_depth, or that the
\* caller wrote: a scalar, or a container.
CutValues ==
    {None, EmptyDict, Dict(<<<<<<"b">>, None>>>>), EmptyList, List(<<None>>)}

RECURSIVE CutEntries(_, _)
CutEntries(n, keys) ==
    IF n = 0 THEN {<<>>}
    ELSE {<<<<k, v>>>> \o rest : k \in keys, v \in CutValues, rest \in CutEntries(n - 1, keys)}

CutInputs(sep) ==
    {Dict(e) : e \in {f \in UNION {CutEntries(n, FlatKeys(sep)) : n \in 0..MaxEntries} :
                        \A i, j \in 1..Len(f) : f[i][1] = f[j][1] => i = j}}

\* Flat mappings whose second key walks, through a digit-only segment, into
\* an element of a list the first pair stored: a list where a dict is needed,
\* a dict where a list is needed, and a list where a list is needed.
CoerceExamples ==
    {Dict(<<<<<<"b">>, List(<<List(<<None>>)>>)>>, <<<<"b", ".", "0", ".", "b">>, Scalar("v1")>>>>),
     Dict(<<<<<<"b">>, List(<<Dict(<<<<<<"b">>, None>>>>)>>)>>,
            <<<<"b", ".", "0", ".", "0", ".", "b">>, Scalar("v1")>>>>),
     Dict(<<<<<<"b">>, List(<<List(<<None>>)>>)>>,
            <<<<"b", ".", "0", ".", "0", ".", "b">>, Scalar("v1")>>>>)}

(***************************************************************************)
(* Files and streams.  A file is [exists, text], its text a sequence of    *)
(* strings; a stream is the sequence of the lines printed on it.           *)
(***************************************************************************)
Absent == [exists |-> FALSE, text |-> <<>>]

File(text) == [exists |-> TRUE, text |-> text]

NoPath == ""

WorldIdle ==
    /\ out_file = Absent
    /\ stdout = <<>>
    /\ stderr = <<>>
    /\ exit = -1
    /\ raised = ""

ProcessIdle ==
    /\ document = EmptyDict
    /\ file_mode = ""
    /\ output_path = NoPath
    /\ file_data = EmptyDict
    /\ output = <<>>

NoStats == [files_processed |-> 0, rows_total |-> 0, rows_written |-> 0, duplicates_removed |-> 0]

NoFieldnames == [given |-> FALSE, names |-> <<>>]

CsvIdle ==
    /\ inputs = <<>>
    /\ add_source = FALSE
    /\ deduplicate = FALSE
    /\ dry_run = FALSE
    /\ stats = NoStats
    /\ all_rows = <<>>
    /\ seen_rows = {}
    /\ fieldnames = NoFieldnames
    /\ file_no = 1
    /\ line_no = 1

EnvIdle ==
    /\ env_files = <<>>
    /\ run = 1
    /\ placeholder = <<>>
    /\ patterns = <<>>
    /\ keep_values = FALSE
    /\ template_lines = <<>>
    /\ env_pos = 1
    /\ templates = <<>>

NoResult ==
    [valid |-> TRUE, total_rows |-> 0, valid_rows |-> 0, invalid_rows |-> 0, errors |-> <<>>,
     duplicates |-> <<>>]

ValidatorIdle ==
    /\ csv_rows = <<>>
    /\ rules = <<>>
    /\ skip_header = FALSE
    /\ validation_result = NoResult
    /\ seen_values = <<>>
    /\ row_no = 1

NoBatchStats == [processed |-> 0, failed |-> 0, errors |-> <<>>]

BatchIdle ==
    /\ input_dir = <<>>
    /\ source_format = ""
    /\ target_format = ""
    /\ yaml_installed = TRUE
    /\ files = <<>>
    /\ batch_stats = NoBatchStats
    /\ file_idx = 1
    /\ output_dir = {}

FlattenIdle ==
    /\ tree = EmptyDict /\ separator = Dot /\ max_depth = {} /\ flat = EmptyDict
    /\ pos = 1 /\ result = EmptyDict /\ prev = EmptyDict /\ aliases = {}

(***************************************************************************)
(* The state machine.  mode "roundtrip": flatten(tree, separator,          *)
(* max_depth=max_depth), then unflatten of what it returned with the same  *)
(* separator.  mode "unflatten": unflatten(flat, separator) on a flat      *)
(* mapping given by the caller, with scalar values; mode "extend": the     *)
(* same on a flat mapping whose values can be containers, with the default *)
(* separator.  unflatten runs one pair of data.items() per step: pos is    *)
(* the position of the next pair, result the tree built so far, prev the   *)
(* tree as it was before the last pair, aliases the objects result shares  *)
(* with the argument; flat is the argument as the caller sees it.          *)
(***************************************************************************)
Init ==
    /\ \/ /\ mode = "roundtrip"
          /\ \E f \in TreeInputs :
                /\ separator = f.sep
                /\ tree \in TreesOver(f.keys, f.nodes) \cup {NestedListExample}
          /\ max_depth \in MaxDepths
          /\ flat = EmptyDict
          /\ pc = "flatten"
       \/ /\ mode = "unflatten"
          /\ separator \in Separators
          /\ tree = EmptyDict
          /\ max_depth = {}
          /\ flat \in FlatInputs(separator)
          /\ pc = "unflatten"
       \/ /\ mode = "extend"
          /\ separator = Dot
          /\ tree = EmptyDict
          /\ max_depth = {}
          /\ flat \in CutInputs(separator) \cup CoerceExamples
          /\ pc = "unflatten"
    /\ pos = 1
    /\ result = EmptyDict
    /\ prev = EmptyDict
    /\ aliases = {}
    /\ WorldIdle
    /\ ProcessIdle
    /\ CsvIdle
    /\ EnvIdle
    /\ ValidatorIdle
    /\ BatchIdle

FlattenCall ==
    /\ pc = "flatten"
    /\ flat' = Flatten(tree, separator, <<>>, max_depth, 0)
    /\ pc' = "unflatten"
    /\ UNCHANGED <<mode, tree, separator, max_depth, pos, result, prev, aliases>>
    /\ UNCHANGED besideFlatten

\* PcAfter going on to the next turn of the loop after a `return result`.
PcAfterGoingOn(st) == IF st = "raise" THEN "raised" ELSE "unflatten"

\* Where unflatten is after the body of the loop ended with st: in the loop,
\* out of it by one of the `return result` inside it, or left by an exception.
PcAfter(st) ==
    CASE st = "ok" -> "unflatten"
      [] st = "return" -> "aborted"
      [] st = "raise" -> "raised"

UnflattenStep ==
    /\ pc = "unflatten"
    /\ pos <= Len(flat.val)
    /\ LET key == flat.val[pos][1]
           value == flat.val[pos][2]
           r == UnflattenPair(result, key, value, separator)
           al == Kept(aliases, r.cut)
                    \cup (IF r.st = "ok" /\ value.kind # "scalar"
                          THEN {[at |-> StoredAt(r.cut), pos |-> pos]}
                          ELSE {})
       IN /\ result' = r.node
          /\ aliases' = al
          /\ flat' = Shared(flat, r.node, al)
          /\ prev' = result
          /\ pos' = IF r.st = "ok" THEN pos + 1 ELSE pos
          /\ pc' = PcAfter(r.st)
    /\ UNCHANGED <<mode, tree, separator, max_depth>>
    /\ UNCHANGED besideFlatten

UnflattenReturn ==
    /\ pc = "unflatten"
    /\ pos > Len(flat.val)
    /\ pc' = "returned"
    /\ UNCHANGED <<mode, tree, separator, max_depth, flat, pos, result, prev, aliases>>
    /\ UNCHANGED besideFlatten

Next == FlattenCall \/ UnflattenStep \/ UnflattenReturn

Spec == Init /\ [][Next]_vars

(***************************************************************************)
(* json_flatten.process_file(input_path, output_path, mode, separator,     *)
(* max_depth).  Unflatten is the whole call of unflatten: UnflattenFrom    *)
(* goes through data.items() from the pair at position p on.  A call of    *)
(* flatten or unflatten on a value that is no dict fails at data.items()   *)
(* with AttributeError.  Dumps is json.dumps(x, indent=2), the text as the *)
(* sequence of its tokens, at indentation level n.                         *)
(***************************************************************************)
RECURSIVE UnflattenFrom(_, _, _, _)
UnflattenFrom(res, d, sep, p) ==
    IF p > Len(d.val) THEN [st |-> "ok", node |-> res]
    ELSE LET r == UnflattenPair(res, d.val[p][1], d.val[p][2], sep)
         IN IF r.st = "ok" THEN UnflattenFrom(r.node, d, sep, p + 1)
            ELSE [st |-> r.st, node |-> r.node]

Unflatten(d, sep) ==
    IF ~IsDict(d) THEN [error |-> "AttributeError", value |-> EmptyDict]
    ELSE LET r == UnflattenFrom(EmptyDict, d, sep, 1)
         IN [error |-> IF r.st = "raise" THEN "TypeError" ELSE "", value |-> r.node]

FlattenOf(d, sep, md) ==
    IF ~IsDict(d) THEN [error |-> "AttributeError", value |-> EmptyDict]
    ELSE [error |-> "", value |-> Flatten(d, sep, <<>>, md, 0)]

RECURSIVE Indent(_)
Indent(n) == IF n = 0 THEN <<>> ELSE <<"  ">> \o Indent(n - 1)

RECURSIVE Dumps(_, _)
RECURSIVE DumpsFrom(_, _, _)

Dumps(x, n) ==
    IF x.kind = "scalar"
    THEN IF x.val = "null" \/ IsDigit(<<x.val>>) THEN <<x.val>> ELSE <<"\"", x.val, "\"">>
    ELSE IF Len(x.val) = 0 THEN IF IsDict(x) THEN <<"{}">> ELSE <<"[]">>
    ELSE <<IF IsDict(x) THEN "{" ELSE "[">> \o DumpsFrom(x, n + 1, 1)
             \o <<"\n">> \o Indent(n) \o <<IF IsDict(x) THEN "}" ELSE "]">>

DumpsFrom(x, n, i) ==
    IF i > Len(x.val) THEN <<>>
    ELSE (IF i > 1 THEN <<",">> ELSE <<>>) \o <<"\n">> \o Indent(n)
            \o (IF IsDict(x) THEN <<"\"">> \o x.val[i][1] \o <<"\"", ": ">> \o Dumps(x.val[i][2], n)
                ELSE Dumps(x.val[i], n))
            \o DumpsFrom(x, n, i + 1)

\* isinstance(data, dict) taking a list for a dict too.
IsObjectOrArray(d) == d.kind # "scalar"

IsObject(d) == IsDict(d)

MaxDocumentNodes == 2

Documents ==
    TreesOver({<<"b">>, <<"0">>}, MaxDocumentNodes)
        \cup UNION {Values(n, {<<"b">>}) : n \in 1..MaxDocumentNodes}

OldFile == File(<<"old">>)

InitFile ==
    /\ mode \in {"process_file", "flatten"}
    /\ document \in Documents
    /\ file_mode \in IF mode = "process_file" THEN {"flatten", "unflatten", "other"} ELSE {""}
    /\ output_path \in IF mode = "process_file" THEN {NoPath, "output.json"} ELSE {NoPath}
    /\ separator = Dot
    /\ max_depth \in MaxDepths
    /\ out_file \in {Absent, OldFile}
    /\ pc = IF mode = "process_file" THEN "load" ELSE "call"
    /\ file_data = EmptyDict
    /\ output = <<>>
    /\ result = EmptyDict
    /\ tree = EmptyDict /\ flat = EmptyDict /\ pos = 1 /\ prev = EmptyDict /\ aliases = {}
    /\ stdout = <<>> /\ stderr = <<>> /\ exit = -1 /\ raised = ""
    /\ CsvIdle
    /\ EnvIdle
    /\ ValidatorIdle
    /\ BatchIdle

\* with input_path.open() as f: data = json.load(f)
ProcessFileLoad ==
    /\ mode = "process_file" /\ pc = "load"
    /\ file_data' = document
    /\ pc' = "dispatch"
    /\ UNCHANGED <<mode, tree, separator, max_depth, flat, pos, result, prev, aliases>>
    /\ UNCHANGED <<worldVars, document, file_mode, output_path, output>>
    /\ UNCHANGED csvVars
    /\ UNCHANGED envVars
    /\ UNCHANGED validatorVars
    /\ UNCHANGED batchVars

\* the if / elif / else on mode
ProcessFileDispatch ==
    /\ mode = "process_file" /\ pc = "dispatch"
    /\ LET r == IF file_mode \notin {"flatten", "unflatten"} \/ ~IsObject(file_data)
                    THEN [error |-> "ValueError", value |-> EmptyDict]
                ELSE IF file_mode = "flatten" THEN FlattenOf(file_data, separator, max_depth)
                ELSE Unflatten(file_data, separator)
       IN /\ raised' = r.error
          /\ result' = IF r.error = "" THEN r.value ELSE result
          /\ pc' = IF r.error = "" THEN "dump" ELSE "raised"
    /\ UNCHANGED <<mode, tree, separator, max_depth, flat, pos, prev, aliases>>
    /\ UNCHANGED <<out_file, stdout, stderr, exit, processVars>>
    /\ UNCHANGED csvVars
    /\ UNCHANGED envVars
    /\ UNCHANGED validatorVars
    /\ UNCHANGED batchVars

\* output = json.dumps(result, ...); output_path.write_text(output); return output
ProcessFileWrite ==
    /\ mode = "process_file" /\ pc = "dump"
    /\ output' = Dumps(result, 0)
    /\ out_file' = IF output_path # NoPath THEN File(Dumps(result, 0)) ELSE out_file
    /\ pc' = "done"
    /\ UNCHANGED <<mode, tree, separator, max_depth, flat, pos, result, prev, aliases>>
    /\ UNCHANGED <<stdout, stderr, exit, raised, document, file_mode, output_path, file_data>>
    /\ UNCHANGED csvVars
    /\ UNCHANGED envVars
    /\ UNCHANGED validatorVars
    /\ UNCHANGED batchVars

\* flatten(document), called on the document itself.
FlattenDocument ==
    /\ mode = "flatten" /\ pc = "call"
    /\ LET r == FlattenOf(document, separator, max_depth)
       IN /\ raised' = r.error
          /\ result' = IF r.error = "" THEN r.value ELSE result
          /\ pc' = IF r.error = "" THEN "done" ELSE "raised"
    /\ UNCHANGED <<mode, tree, separator, max_depth, flat, pos, prev, aliases>>
    /\ UNCHANGED <<out_file, stdout, stderr, exit, processVars>>
    /\ UNCHANGED csvVars
    /\ UNCHANGED envVars
    /\ UNCHANGED validatorVars
    /\ UNCHANGED batchVars

NextFile == ProcessFileLoad \/ ProcessFileDispatch \/ ProcessFileWrite \/ FlattenDocument

SpecFile == InitFile /\ [][NextFile]_vars

(***************************************************************************)
(* csv_merge.main, merge_csv_files and _merge_by_rows.  A CSV file is      *)
(* [name, exists, lines], a line the sequence of its cells, the first line *)
(* the header.  A row of csv.DictReader is a dict: the key of a field is   *)
(* <<name>> and the key None is <<>>; the value of a cell is <<cell>>, the *)
(* value None (a missing cell) is <<>>, and the value under the key None   *)
(* is the sequence of the cells beyond the header.                         *)
(***************************************************************************)
NoneKey == <<>>

NoneValue == <<>>

\* reader.fieldnames: the first line of the file, None for an empty file.
ReaderFieldnames(file) ==
    IF Len(file.lines) = 0 THEN NoFieldnames ELSE [given |-> TRUE, names |-> file.lines[1]]

RECURSIVE Zip(_, _, _, _)
Zip(d, names, cells, i) ==
    IF i > Len(names) \/ i > Len(cells) THEN d
    ELSE Zip(DictSet(d, <<names[i]>>, <<cells[i]>>), names, cells, i + 1)

RECURSIVE FillMissing(_, _, _)
FillMissing(d, names, i) ==
    IF i > Len(names) THEN d
    ELSE FillMissing(DictSet(d, <<names[i]>>, NoneValue), names, i + 1)

\* DictReader.__next__ on a line that is not blank.
DictRow(names, cells) ==
    LET d == Zip(EmptyDict, names, cells, 1)
    IN IF Len(names) < Len(cells)
       THEN DictSet(d, NoneKey, SubSeq(cells, Len(names) + 1, Len(cells)))
       ELSE FillMissing(d, names, Len(cells) + 1)

\* The lines of the file from line n on that DictReader yields: blank lines
\* are skipped.
DataLines(file, n) == {i \in n..Len(file.lines) : file.lines[i] # <<>>}

Min(S) == CHOOSE x \in S : \A y \in S : x <= y

\* tuple(sorted(row.items())): the pairs of the row whatever their order.
RowTuple(row) == {row.val[i] : i \in 1..Len(row.val)}

\* row_tuple in seen_rows that finds nothing.
SeenNever(row_tuple, seen) == FALSE

Seen(row_tuple, seen) == row_tuple \in seen

\* DictWriter: a row has a key that is not a field name.
HasExtraKey(row, names) == \E k \in DictKeys(row) : \A i \in 1..Len(names) : k # <<names[i]>>

\* DictWriter: the cells of a row in the order of the field names, "" for
\* a missing key and for None.
RowCells(row, names) ==
    [i \in 1..Len(names) |->
        IF DictHas(row, <<names[i]>>) /\ DictGet(row, <<names[i]>>) # NoneValue
        THEN DictGet(row, <<names[i]>>)[1] ELSE ""]

MaxFiles == 2
MaxDataLines == 2

HeaderLines == {<<"h">>, <<"h", "g">>}

CellLines == {<<>>, <<"a">>, <<"b">>, <<"a", "b">>}

RECURSIVE LineSeqs(_)
LineSeqs(n) == IF n = 0 THEN {<<>>} ELSE {<<l>> \o rest : l \in CellLines, rest \in LineSeqs(n - 1)}

FileContents ==
    {<<>>} \cup {<<h>> \o ls : h \in HeaderLines, ls \in UNION {LineSeqs(n) : n \in 0..MaxDataLines}}

FileName(i) == IF i = 1 THEN "file1.csv" ELSE "file2.csv"

CsvFiles(i) ==
    {[name |-> FileName(i), exists |-> TRUE, lines |-> c] : c \in FileContents}
        \cup {[name |-> FileName(i), exists |-> FALSE, lines |-> <<>>]}

CsvInputs ==
    UNION {{[i \in 1..n |-> IF i = 1 THEN f ELSE g] : f \in CsvFiles(1), g \in CsvFiles(2)} :
             n \in 1..MaxFiles}

InitCsv ==
    /\ mode = "csv_merge"
    /\ pc = "check"
    /\ inputs \in CsvInputs
    /\ add_source \in BOOLEAN
    /\ deduplicate \in BOOLEAN
    /\ dry_run \in BOOLEAN
    /\ stats = NoStats
    /\ all_rows = <<>>
    /\ seen_rows = {}
    /\ fieldnames = NoFieldnames
    /\ file_no = 1
    /\ line_no = 1
    /\ FlattenIdle
    /\ WorldIdle
    /\ ProcessIdle
    /\ EnvIdle
    /\ ValidatorIdle
    /\ BatchIdle

\* merge_csv_files: the checks on input_files.
MergeCheckInputs ==
    /\ mode = "csv_merge" /\ pc = "check"
    /\ IF \E i \in 1..Len(inputs) : ~inputs[i].exists
       THEN raised' = "FileNotFoundError" /\ pc' = "error"
       ELSE raised' = raised /\ pc' = "open"
    /\ UNCHANGED <<mode, tree, separator, max_depth, flat, pos, result, prev, aliases>>
    /\ UNCHANGED <<out_file, stdout, stderr, exit, processVars, csvVars>>
    /\ UNCHANGED envVars
    /\ UNCHANGED validatorVars
    /\ UNCHANGED batchVars

\* _merge_by_rows: open the next input file and take its header.
OpenInput ==
    /\ mode = "csv_merge" /\ pc = "open"
    /\ fieldnames' = IF fieldnames.given THEN fieldnames
                     ELSE [given |-> TRUE,
                           names |-> (IF add_source THEN <<"_source_file">> ELSE <<>>)
                                        \o ReaderFieldnames(inputs[file_no]).names]
    /\ line_no' = 2
    /\ pc' = "rows"
    /\ UNCHANGED <<mode, tree, separator, max_depth, flat, pos, result, prev, aliases>>
    /\ UNCHANGED <<worldVars, processVars>>
    /\ UNCHANGED <<inputs, add_source, deduplicate, dry_run, stats, all_rows, seen_rows, file_no>>
    /\ UNCHANGED envVars
    /\ UNCHANGED validatorVars
    /\ UNCHANGED batchVars

\* _merge_by_rows: one turn of "for row in reader".
ReadRow ==
    /\ mode = "csv_merge" /\ pc = "rows"
    /\ DataLines(inputs[file_no], line_no) # {}
    /\ LET file == inputs[file_no]
           n == Min(DataLines(file, line_no))
           read == DictRow(ReaderFieldnames(file).names, file.lines[n])
           row == IF add_source THEN DictSet(read, <<"_source_file">>, <<file.name>>) ELSE read
           counted == [stats EXCEPT !.rows_total = @ + 1]
       IN /\ line_no' = n + 1
          /\ IF deduplicate /\ DictHas(row, NoneKey)
             THEN /\ raised' = "TypeError"
                  /\ pc' = "error"
                  /\ stats' = counted
                  /\ UNCHANGED <<all_rows, seen_rows>>
             ELSE IF deduplicate /\ Seen(RowTuple(row), seen_rows)
             THEN /\ stats' = [counted EXCEPT !.duplicates_removed = @ + 1]
                  /\ UNCHANGED <<all_rows, seen_rows, raised, pc>>
             ELSE /\ stats' = counted
                  /\ seen_rows' = IF deduplicate THEN seen_rows \cup {RowTuple(row)} ELSE seen_rows
                  /\ all_rows' = Append(all_rows, row)
                  /\ UNCHANGED <<raised, pc>>
    /\ UNCHANGED <<mode, tree, separator, max_depth, flat, pos, result, prev, aliases>>
    /\ UNCHANGED <<out_file, stdout, stderr, exit, processVars>>
    /\ UNCHANGED <<inputs, add_source, deduplicate, dry_run, fieldnames, file_no>>
    /\ UNCHANGED envVars
    /\ UNCHANGED validatorVars
    /\ UNCHANGED batchVars

\* _merge_by_rows: the reader is exhausted; stats["files_processed"] += 1.
CloseInput ==
    /\ mode = "csv_merge" /\ pc = "rows"
    /\ DataLines(inputs[file_no], line_no) = {}
    /\ stats' = [stats EXCEPT !.files_processed = @ + 1]
    /\ file_no' = file_no + 1
    /\ pc' = IF file_no < Len(inputs) THEN "open" ELSE "write"
    /\ UNCHANGED <<mode, tree, separator, max_depth, flat, pos, result, prev, aliases>>
    /\ UNCHANGED <<worldVars, processVars>>
    /\ UNCHANGED <<inputs, add_source, deduplicate, dry_run, all_rows, seen_rows, fieldnames,
                   line_no>>
    /\ UNCHANGED envVars
    /\ UNCHANGED validatorVars
    /\ UNCHANGED batchVars

\* _merge_by_rows: open the output file, write the header and the rows.
WriteOutput ==
    /\ mode = "csv_merge" /\ pc = "write"
    /\ LET bad == {i \in 1..Len(all_rows) : HasExtraKey(all_rows[i], fieldnames.names)}
           last == IF bad = {} THEN Len(all_rows) ELSE Min(bad) - 1
       IN /\ out_file' = File(<<fieldnames.names>>
                                \o [i \in 1..last |-> RowCells(all_rows[i], fieldnames.names)])
          /\ IF bad = {}
             THEN /\ stats' = [stats EXCEPT !.rows_written = Len(all_rows)]
                  /\ pc' = "report"
                  /\ raised' = raised
             ELSE /\ raised' = "ValueError"
                  /\ pc' = "error"
                  /\ stats' = stats
    /\ UNCHANGED <<mode, tree, separator, max_depth, flat, pos, result, prev, aliases>>
    /\ UNCHANGED <<stdout, stderr, exit, processVars>>
    /\ UNCHANGED <<inputs, add_source, deduplicate, dry_run, all_rows, seen_rows, fieldnames,
                   file_no, line_no>>
    /\ UNCHANGED envVars
    /\ UNCHANGED validatorVars
    /\ UNCHANGED batchVars

\* main: print the statistics and return 0.
MainReport ==
    /\ mode = "csv_merge" /\ pc = "report"
    /\ stdout' = stdout
          \o << <<"Files processed: ">> \o Str(stats.files_processed),
                <<"Total rows read: ">> \o Str(stats.rows_total),
                <<"Rows written: ">> \o Str(stats.rows_written) >>
          \o (IF stats.duplicates_removed > 0
              THEN << <<"Duplicates removed: ">> \o Str(stats.duplicates_removed) >> ELSE <<>>)
          \o (IF ~dry_run THEN << <<"Output saved to: ", "output.csv">> >>
              ELSE << <<"(Dry run - no file written)">> >>)
    /\ exit' = 0
    /\ pc' = "exit"
    /\ UNCHANGED <<mode, tree, separator, max_depth, flat, pos, result, prev, aliases>>
    /\ UNCHANGED <<out_file, stderr, raised, processVars, csvVars>>
    /\ UNCHANGED envVars
    /\ UNCHANGED validatorVars
    /\ UNCHANGED batchVars

\* main: except Exception as e: print(f"Error: {e}"); return 1.
MainError ==
    /\ mode = "csv_merge" /\ pc = "error"
    /\ stdout' = Append(stdout, <<"Error: ", raised>>)
    /\ exit' = 1
    /\ pc' = "exit"
    /\ UNCHANGED <<mode, tree, separator, max_depth, flat, pos, result, prev, aliases>>
    /\ UNCHANGED <<out_file, stderr, raised, processVars, csvVars>>
    /\ UNCHANGED envVars
    /\ UNCHANGED validatorVars
    /\ UNCHANGED batchVars

NextCsv ==
    \/ MergeCheckInputs
    \/ OpenInput
    \/ ReadRow
    \/ CloseInput
    \/ WriteOutput
    \/ MainReport
    \/ MainError

SpecCsv == InitCsv /\ [][NextCsv]_vars

(***************************************************************************)
(* env_template.main, generate_template and is_sensitive_key.  A line of   *)
(* the env file is the sequence of its characters, the line end included.  *)
(* A pattern of the shape .*word.* is the word; re.match of it on the      *)
(* lower-cased key with re.IGNORECASE finds the word, whatever its case,   *)
(* somewhere in the key.                                                   *)
(***************************************************************************)
UpperCase == <<"A", "B", "C", "D", "E", "F", "G", "H", "I", "J", "K", "L", "M",
               "N", "O", "P", "Q", "R", "S", "T", "U", "V", "W", "X", "Y", "Z">>

LowerCase == <<"a", "b", "c", "d", "e", "f", "g", "h", "i", "j", "k", "l", "m",
               "n", "o", "p", "q", "r", "s", "t", "u", "v", "w", "x", "y", "z">>

Lower(str) ==
    [i \in 1..Len(str) |->
        IF \E n \in 1..26 : UpperCase[n] = str[i]
        THEN LowerCase[CHOOSE n \in 1..26 : UpperCase[n] = str[i]] ELSE str[i]]

Whitespace == {" ", "\t", "\n", "\r"}

LineEnds == {"\n", "\r"}

Quotes == {"'", "\""}

RECURSIVE LStrip(_, _)
LStrip(str, chars) == IF Len(str) > 0 /\ str[1] \in chars THEN LStrip(Tail(str), chars) ELSE str

RECURSIVE RStrip(_, _)
RStrip(str, chars) ==
    IF Len(str) > 0 /\ str[Len(str)] \in chars THEN RStrip(SubSeq(str, 1, Len(str) - 1), chars)
    ELSE str

Strip(str, chars) == LStrip(RStrip(str, chars), chars)

\* str.partition("="): the text before the first "=" and the text after it.
Before(str) == SubSeq(str, 1, (CHOOSE i \in 1..Len(str) : str[i] = "=" /\ \A j \in 1..(i - 1) : str[j] # "=") - 1)

After(str) == SubSeq(str, Len(Before(str)) + 2, Len(str))

DEFAULT_SENSITIVE_PATTERNS ==
    <<<<"p", "a", "s", "s", "w", "o", "r", "d">>,
      <<"s", "e", "c", "r", "e", "t">>,
      <<"t", "o", "k", "e", "n">>,
      <<"k", "e", "y">>,
      <<"a", "p", "i">>,
      <<"a", "u", "t", "h">>,
      <<"c", "r", "e", "d", "e", "n", "t", "i", "a", "l">>,
      <<"p", "r", "i", "v", "a", "t", "e">>>>

\* is_sensitive_key with no pattern matching any key.
NeverSensitive(key, pats) == FALSE

is_sensitive_key(key, pats) ==
    LET used == IF Len(pats) > 0 THEN pats ELSE DEFAULT_SENSITIVE_PATTERNS
    IN \E n \in 1..Len(used) : Contains(Lower(Lower(key)), Lower(used[n]))
    \* key.lower() is matched with re.IGNORECASE: both sides are compared in lower case

\* The key and the value of a stripped line that has a "=".
KeyOf(str) == Strip(Before(str), Whitespace)

ValueOf(str) == Strip(Strip(After(str), Whitespace), Quotes)

\* One turn of "for line in f": the line appended to lines.
TemplateLine(raw, holder, pats, keep) ==
    LET line == RStrip(raw, LineEnds)
        stripped == Strip(line, Whitespace)
    IN IF Len(stripped) = 0 \/ stripped[1] = "#" THEN line
       ELSE IF "=" \in {stripped[i] : i \in 1..Len(stripped)}
       THEN IF keep THEN KeyOf(stripped) \o <<"=">> \o ValueOf(stripped)
            ELSE IF is_sensitive_key(KeyOf(stripped), pats)
                THEN KeyOf(stripped) \o <<"=">> \o holder
            ELSE KeyOf(stripped) \o <<"=">> \o ValueOf(stripped)
       ELSE line

\* "\n".join(lines) + "\n"
RECURSIVE JoinLines(_)
JoinLines(ls) ==
    IF Len(ls) = 0 THEN <<>>
    ELSE IF Len(ls) = 1 THEN ls[1]
    ELSE ls[1] \o <<"\n">> \o JoinLines(Tail(ls))

TemplateContent(ls) == JoinLines(ls) \o <<"\n">>

MaxEnvLines == 2

RawKeys == {<<"K", "E", "Y">>, <<"P">>, <<" ", "a", "P", "i", " ">>}

RawValues == {<<"v">>, <<"'", "w", "'">>, <<" ", "v", "\"">>, <<>>}

OtherLines == {<<"#", "K", "E", "Y", "=", "v", "\n">>, <<" ", "\n">>, <<"K", "E", "Y", "\n">>}

EnvLines == {k \o <<"=">> \o v \o <<"\n">> : k \in RawKeys, v \in RawValues} \cup OtherLines

RECURSIVE EnvTexts(_)
EnvTexts(n) == IF n = 0 THEN {<<>>} ELSE {<<l>> \o rest : l \in EnvLines, rest \in EnvTexts(n - 1)}

IsAssignment(raw) ==
    LET stripped == Strip(raw, Whitespace)
    IN Len(stripped) > 0 /\ stripped[1] # "#" /\ "=" \in {stripped[i] : i \in 1..Len(stripped)}

\* Two lines that are the same up to the value: the same line, or two
\* KEY=VALUE lines with the same text up to the "=".
SameButValue(a, b) == a = b \/ (IsAssignment(a) /\ IsAssignment(b) /\ Before(a) = Before(b))

EnvTwins(text) ==
    {t \in EnvTexts(Len(text)) : \A i \in 1..Len(text) : SameButValue(text[i], t[i])}

EnvFile(text) == [exists |-> TRUE, lines |-> text]

NoEnvFile == [exists |-> FALSE, lines |-> <<>>]

EnvPairs ==
    {<<NoEnvFile, NoEnvFile>>}
        \cup UNION {{<<EnvFile(a), EnvFile(b)>> : b \in EnvTwins(a)} :
                      a \in UNION {EnvTexts(n) : n \in 0..MaxEnvLines}}

YOUR_VALUE_HERE == <<"Y", "O", "U", "R">>

InitEnv ==
    /\ mode = "env_template"
    /\ pc = "start"
    /\ env_files \in EnvPairs
    /\ run = 1
    /\ placeholder = YOUR_VALUE_HERE
    /\ patterns \in {<<>>, <<<<"P">>>>}
    /\ keep_values \in BOOLEAN
    /\ dry_run \in BOOLEAN
    /\ output_path \in {NoPath, "out.template"}
    /\ template_lines = <<>>
    /\ env_pos = 1
    /\ templates = <<>>
    /\ output = <<>>
    /\ document = EmptyDict /\ file_mode = "" /\ file_data = EmptyDict
    /\ inputs = <<>> /\ add_source = FALSE /\ deduplicate = FALSE /\ stats = NoStats
    /\ all_rows = <<>> /\ seen_rows = {} /\ fieldnames = NoFieldnames /\ file_no = 1 /\ line_no = 1
    /\ FlattenIdle
    /\ WorldIdle
    /\ ValidatorIdle
    /\ BatchIdle

\* main: output_path defaults to the input path with the suffix .template
\* unless it is a dry run.
EnvMainStart ==
    /\ mode = "env_template" /\ pc = "start"
    /\ output_path' = IF output_path = NoPath /\ ~dry_run THEN "input.template" ELSE output_path
    /\ pc' = "generate"
    /\ UNCHANGED <<mode, tree, separator, max_depth, flat, pos, result, prev, aliases>>
    /\ UNCHANGED <<worldVars, document, file_mode, file_data, output, csvVars, envVars>>
    /\ UNCHANGED validatorVars
    /\ UNCHANGED batchVars

\* generate_template: env_path.exists()
GenerateCheck ==
    /\ mode = "env_template" /\ pc = "generate"
    /\ IF env_files[run].exists
       THEN raised' = raised /\ pc' = "lines"
       ELSE raised' = "FileNotFoundError" /\ pc' = "not_found"
    /\ template_lines' = <<>>
    /\ env_pos' = 1
    /\ UNCHANGED <<mode, tree, separator, max_depth, flat, pos, result, prev, aliases>>
    /\ UNCHANGED <<out_file, stdout, stderr, exit, processVars, csvVars>>
    /\ UNCHANGED <<env_files, run, placeholder, patterns, keep_values, templates>>
    /\ UNCHANGED validatorVars
    /\ UNCHANGED batchVars

\* generate_template: one turn of "for line in f".
GenerateLine ==
    /\ mode = "env_template" /\ pc = "lines"
    /\ env_pos <= Len(env_files[run].lines)
    /\ template_lines' = Append(template_lines,
                                TemplateLine(env_files[run].lines[env_pos], placeholder, patterns,
                                             keep_values))
    /\ env_pos' = env_pos + 1
    /\ UNCHANGED <<mode, tree, separator, max_depth, flat, pos, result, prev, pc, aliases>>
    /\ UNCHANGED <<worldVars, processVars, csvVars>>
    /\ UNCHANGED <<env_files, run, placeholder, patterns, keep_values, templates>>
    /\ UNCHANGED validatorVars
    /\ UNCHANGED batchVars

\* generate_template: join the lines, write the file unless the path given
\* is None (main gives None in a dry run), return the text.
GenerateWrite ==
    /\ mode = "env_template" /\ pc = "lines"
    /\ env_pos > Len(env_files[run].lines)
    /\ output' = TemplateContent(template_lines)
    /\ templates' = Append(templates, TemplateContent(template_lines))
    /\ out_file' = IF ~dry_run /\ output_path # NoPath THEN File(TemplateContent(template_lines))
                   ELSE out_file
    /\ pc' = "print"
    /\ UNCHANGED <<mode, tree, separator, max_depth, flat, pos, result, prev, aliases>>
    /\ UNCHANGED <<stdout, stderr, exit, raised, document, file_mode, output_path, file_data>>
    /\ UNCHANGED <<csvVars, env_files, run, placeholder, patterns, keep_values, template_lines,
                   env_pos>>
    /\ UNCHANGED validatorVars
    /\ UNCHANGED batchVars

\* main: print the template or the path of the file; return 0.
EnvMainPrint ==
    /\ mode = "env_template" /\ pc = "print"
    /\ stdout' = Append(stdout, IF dry_run THEN output ELSE <<"Template generated: ", output_path>>)
    /\ exit' = 0
    /\ pc' = "exit"
    /\ UNCHANGED <<mode, tree, separator, max_depth, flat, pos, result, prev, aliases>>
    /\ UNCHANGED <<out_file, stderr, raised, processVars, csvVars, envVars>>
    /\ UNCHANGED validatorVars
    /\ UNCHANGED batchVars

\* main: except FileNotFoundError as e: print(f"Error: {e}"); return 1.
EnvMainNotFound ==
    /\ mode = "env_template" /\ pc = "not_found"
    /\ stdout' = Append(stdout, <<"Error: ", "Environment file not found: ", "input">>)
    /\ exit' = 1
    /\ pc' = "exit"
    /\ UNCHANGED <<mode, tree, separator, max_depth, flat, pos, result, prev, aliases>>
    /\ UNCHANGED <<out_file, stderr, raised, processVars, csvVars, envVars>>
    /\ UNCHANGED validatorVars
    /\ UNCHANGED batchVars

\* main run again, on the other env file, with the same arguments.
EnvRunAgain ==
    /\ mode = "env_template" /\ pc = "exit" /\ run = 1
    /\ run' = 2
    /\ pc' = "start"
    /\ exit' = -1
    /\ raised' = ""
    /\ stdout' = <<>>
    /\ output' = <<>>
    /\ output_path' = IF output_path = "input.template" THEN NoPath ELSE output_path
    /\ UNCHANGED <<mode, tree, separator, max_depth, flat, pos, result, prev, aliases>>
    /\ UNCHANGED <<out_file, stderr, document, file_mode, file_data, csvVars>>
    /\ UNCHANGED <<env_files, placeholder, patterns, keep_values, template_lines, env_pos,
                   templates>>
    /\ UNCHANGED validatorVars
    /\ UNCHANGED batchVars

NextEnv ==
    \/ EnvMainStart
    \/ GenerateCheck
    \/ GenerateLine
    \/ GenerateWrite
    \/ EnvMainPrint
    \/ EnvMainNotFound
    \/ EnvRunAgain

SpecEnv == InitEnv /\ [][NextEnv]_vars

(***************************************************************************)
(* data_validator.validate_csv.  A row of csv.DictReader is a function     *)
(* from the field names of the header to values, a value being <<cell>>    *)
(* for the text of a cell and <<>> for None (a row shorter than the        *)
(* header).  A rule is [field, required, unique]: the rules of the model   *)
(* set no type_, pattern, min_value, max_value or custom.  validate_json   *)
(* runs the same loop on the items of a JSON array of objects, csv_rows    *)
(* then being the items and an item a function from its fields to values.  *)
(***************************************************************************)
MaxRows == 3

MaxRules == 2

FieldNames == {"id", "n"}

IdValues == {<<<<"1">>>>, <<<<"2">>>>, <<<<" ">>>>}

NValues == {NoneValue, <<<<"1">>>>}

RowValues == {[f \in FieldNames |-> IF f = "id" THEN a ELSE b] : a \in IdValues, b \in NValues}

RECURSIVE RowSeqs(_)
RowSeqs(n) == IF n = 0 THEN {<<>>} ELSE {<<r>> \o rest : r \in RowValues, rest \in RowSeqs(n - 1)}

ValidationRule(field, required, unique) == [field |-> field, required |-> required, unique |-> unique]

Rules == {ValidationRule(f, r, u) : f \in FieldNames, r \in BOOLEAN, u \in BOOLEAN}

RECURSIVE RuleSeqs(_)
RuleSeqs(n) == IF n = 0 THEN {<<>>} ELSE {<<r>> \o rest : r \in Rules, rest \in RuleSeqs(n - 1)}

\* row.get(field)
RowGet(row, field) == IF field \in DOMAIN row THEN row[field] ELSE NoneValue

\* A test for blank that no value passes.
IsBlankValueNever(value) == FALSE

\* value is None or str(value).strip() == ""
IsBlankValue(value) == value = NoneValue \/ Strip(value[1], Whitespace) = <<>>

\* enumerate(reader, start=2 if skip_header else 1)
RowNum(n, skip) == IF skip THEN n + 1 ELSE n

\* seen_values[field], and seen_values after seen_values[field].add(value),
\* the set being made on the first use of the field.
SeenOf(seen, field) == IF field \in DOMAIN seen THEN seen[field] ELSE {}

SeenAdd(seen, field, value) ==
    [f \in DOMAIN seen \cup {field} |->
        IF f = field THEN SeenOf(seen, field) \cup {value} ELSE seen[f]]

\* "for rule in rules" from the k-th rule on, for one row: acc holds
\* row_valid, row_errors, result.duplicates and seen_values.
RECURSIVE ApplyRules(_, _, _, _, _)
ApplyRules(row, row_num, rls, k, acc) ==
    IF k > Len(rls) THEN acc
    ELSE LET rule == rls[k]
             value == RowGet(row, rule.field)
             next ==
                 IF rule.required /\ IsBlankValue(value)
                 THEN [acc EXCEPT !.row_valid = FALSE,
                                  !.row_errors = Append(@, <<"Field '", rule.field, "' is required">>)]
                 ELSE IF IsBlankValue(value) THEN acc
                 ELSE IF rule.unique
                 THEN [acc EXCEPT !.duplicates =
                                      IF value \in SeenOf(acc.seen, rule.field)
                                      THEN Append(@, [row |-> row_num, field |-> rule.field,
                                                      value |-> value])
                                      ELSE @,
                                  !.seen = SeenAdd(@, rule.field, value)]
                 ELSE acc
         IN ApplyRules(row, row_num, rls, k + 1, next)

\* validate_json: the items of the array json.load gives, objects that can
\* lack a field; the rows of validate_csv have every field of the header.
ItemValues == RowValues \cup {[f \in {"n"} |-> b] : b \in NValues}

RECURSIVE ItemSeqs(_)
ItemSeqs(n) == IF n = 0 THEN {<<>>} ELSE {<<r>> \o rest : r \in ItemValues, rest \in ItemSeqs(n - 1)}

ValidatorModes == {"validate_csv", "validate_json"}

InitValidator ==
    /\ \/ /\ mode = "validate_csv"
          /\ csv_rows \in UNION {RowSeqs(n) : n \in 0..MaxRows}
          /\ skip_header \in BOOLEAN
       \/ /\ mode = "validate_json"
          /\ csv_rows \in UNION {ItemSeqs(n) : n \in 0..MaxRows}
          /\ skip_header = FALSE
    /\ pc = "rows"
    /\ rules \in UNION {RuleSeqs(n) : n \in 0..MaxRules}
    /\ validation_result = NoResult
    /\ seen_values = <<>>
    /\ row_no = 1
    /\ FlattenIdle
    /\ WorldIdle
    /\ ProcessIdle
    /\ CsvIdle
    /\ EnvIdle
    /\ BatchIdle

\* One turn of "for row_num, row in enumerate(reader, ...)" of validate_csv,
\* or of "for row_num, item in enumerate(data, start=1)" of validate_json.
ValidateRow ==
    /\ mode \in ValidatorModes /\ pc = "rows"
    /\ row_no <= Len(csv_rows)
    /\ LET r == ApplyRules(csv_rows[row_no], RowNum(row_no, skip_header), rules, 1,
                           [row_valid |-> TRUE, row_errors |-> <<>>,
                            duplicates |-> validation_result.duplicates, seen |-> seen_values])
       IN /\ validation_result' =
                 [validation_result EXCEPT
                     !.total_rows = @ + 1,
                     !.valid_rows = IF r.row_valid THEN @ + 1 ELSE @,
                     !.invalid_rows = IF r.row_valid THEN @ ELSE @ + 1,
                     !.errors = IF r.row_valid THEN @
                                ELSE Append(@, [row |-> RowNum(row_no, skip_header),
                                                errors |-> r.row_errors]),
                     !.duplicates = r.duplicates]
          /\ seen_values' = r.seen
    /\ row_no' = row_no + 1
    /\ UNCHANGED <<flattenVars, worldVars, processVars, csvVars, envVars>>
    /\ UNCHANGED <<csv_rows, rules, skip_header>>
    /\ UNCHANGED batchVars

\* result.valid = result.invalid_rows == 0 and len(result.duplicates) == 0
ValidateReturn ==
    /\ mode \in ValidatorModes /\ pc = "rows"
    /\ row_no > Len(csv_rows)
    /\ validation_result' =
           [validation_result EXCEPT
               !.valid = validation_result.invalid_rows = 0
                            /\ Len(validation_result.duplicates) = 0]
    /\ pc' = "done"
    /\ UNCHANGED <<mode, tree, separator, max_depth, flat, pos, result, prev, aliases>>
    /\ UNCHANGED <<worldVars, processVars, csvVars, envVars>>
    /\ UNCHANGED <<csv_rows, rules, skip_header, seen_values, row_no>>
    /\ UNCHANGED batchVars

NextValidator == ValidateRow \/ ValidateReturn

SpecValidator == InitValidator /\ [][NextValidator]_vars

(***************************************************************************)
(* yaml_json.batch_convert.  A file of input_dir is [stem, suffix,         *)
(* content], its content one of: "json", a JSON text (which yaml.safe_load *)
(* reads too); "yaml", a YAML text that is no JSON; "yaml_date", a YAML    *)
(* text whose value json.dump cannot write; "broken", a text neither       *)
(* parser reads.  A file of output_dir is [name, complete].                *)
(***************************************************************************)
MaxDirFiles == 3

Suffixes == {"yaml", "yml", "json"}

Contents == {"json", "yaml", "yaml_date", "broken"}

Formats == {"yaml", "json", "xml"}

RECURSIVE DirFrom(_, _)
DirFrom(n, k) ==
    IF n = 0 THEN {<<>>}
    ELSE {<<[stem |-> k, suffix |-> x, content |-> c]>> \o rest :
            x \in Suffixes, c \in Contents, rest \in DirFrom(n - 1, k + 1)}

Dirs == UNION {DirFrom(n, 1) : n \in 0..MaxDirFiles}

\* input_dir.glob("*." + suffix)
Glob(dir, suffix) == SelectSeq(dir, LAMBDA f : f.suffix = suffix)

\* The list of files without those of pattern_alt.
MatchedFilesNoAlt(dir, source) == Glob(dir, source)

\* files, for a source format that is known.
MatchedFiles(dir, source) ==
    IF source = "yaml" THEN Glob(dir, "yaml") \o Glob(dir, "yml") ELSE Glob(dir, "json")

\* What the conversion of one file comes to: "ok"; or the exception it
\* raises, before the output file is opened or, for "TypeError", after.
ConvertYamlToJson(file, installed) ==
    IF ~installed THEN "ImportError"
    ELSE IF file.content = "broken" THEN "YAMLError"
    ELSE IF file.content = "yaml_date" THEN "TypeError"
    ELSE "ok"

ConvertJsonToYaml(file, installed) ==
    IF ~installed THEN "ImportError"
    ELSE IF file.content # "json" THEN "JSONDecodeError"
    ELSE "ok"

Convert(file, target, installed) ==
    IF target = "json" THEN ConvertYamlToJson(file, installed)
    ELSE IF target = "yaml" THEN ConvertJsonToYaml(file, installed)
    ELSE "ValueError"

InitBatch ==
    /\ mode = "batch_convert"
    /\ pc = "start"
    /\ input_dir \in Dirs
    /\ source_format \in Formats
    /\ target_format \in Formats
    /\ yaml_installed \in BOOLEAN
    /\ files = <<>>
    /\ batch_stats = NoBatchStats
    /\ file_idx = 1
    /\ output_dir = {}
    /\ FlattenIdle
    /\ WorldIdle
    /\ ProcessIdle
    /\ CsvIdle
    /\ EnvIdle
    /\ ValidatorIdle

\* batch_convert up to the loop: the patterns, the files, stats, mkdir.
BatchStart ==
    /\ mode = "batch_convert" /\ pc = "start"
    /\ IF source_format \in {"yaml", "json"}
       THEN /\ files' = MatchedFiles(input_dir, source_format)
            /\ pc' = "files"
            /\ raised' = raised
       ELSE /\ files' = files
            /\ pc' = "raised"
            /\ raised' = "ValueError"
    /\ batch_stats' = NoBatchStats
    /\ file_idx' = 1
    /\ UNCHANGED <<mode, tree, separator, max_depth, flat, pos, result, prev, aliases>>
    /\ UNCHANGED <<out_file, stdout, stderr, exit, processVars, csvVars, envVars, validatorVars>>
    /\ UNCHANGED <<input_dir, source_format, target_format, yaml_installed, output_dir>>

\* One turn of "for input_file in files".
BatchFile ==
    /\ mode = "batch_convert" /\ pc = "files"
    /\ file_idx <= Len(files)
    /\ LET input_file == files[file_idx]
           outcome == Convert(input_file, target_format, yaml_installed)
           output_file == <<input_file.stem, target_format>>
       IN /\ batch_stats' =
                 IF outcome = "ok" THEN [batch_stats EXCEPT !.processed = @ + 1]
                 ELSE [batch_stats EXCEPT !.failed = @ + 1,
                                          !.errors = Append(@, <<input_file, outcome>>)]
          /\ output_dir' =
                 IF outcome \in {"ok", "TypeError"}
                 THEN {f \in output_dir : f.name # output_file}
                         \cup {[name |-> output_file, complete |-> outcome = "ok"]}
                 ELSE output_dir
    /\ file_idx' = file_idx + 1
    /\ UNCHANGED <<flattenVars, worldVars, processVars, csvVars, envVars, validatorVars>>
    /\ UNCHANGED <<input_dir, source_format, target_format, yaml_installed, files>>

\* return stats
BatchReturn ==
    /\ mode = "batch_convert" /\ pc = "files"
    /\ file_idx > Len(files)
    /\ pc' = "returned"
    /\ UNCHANGED <<mode, tree, separator, max_depth, flat, pos, result, prev, aliases>>
    /\ UNCHANGED <<worldVars, processVars, csvVars, envVars, validatorVars, batchVars>>

NextBatch == BatchStart \/ BatchFile \/ BatchReturn

SpecBatch == InitBatch /\ [][NextBatch]_vars

(***************************************************************************)
(* What the claims speak of.                                               *)
(***************************************************************************)
Flattened == mode = "roundtrip" /\ pc # "flatten"

Ended == pc \in {"returned", "aborted", "raised"}

Parts(key) == Split(key, separator)

RECURSIVE KeysOf(_)
KeysOf(x) ==
    CASE x.kind = "scalar" -> {}
      [] x.kind = "list" -> UNION {KeysOf(x.val[i]) : i \in 1..Len(x.val)}
      [] x.kind = "dict" -> DictKeys(x) \cup UNION {KeysOf(x.val[i][2]) : i \in 1..Len(x.val)}

NoKeyHasSeparator(x, sep) == \A k \in KeysOf(x) : ~Contains(k, sep)

\* C1: for every tree with a dict root none of whose keys equals or contains
\* the separator, unflatten(flatten(tree, sep), sep) returns a tree equal to
\* the input (flatten called without max_depth).
C1_RoundTrip ==
    (mode = "roundtrip" /\ max_depth = {} /\ NoKeyHasSeparator(tree, separator) /\ Ended)
        => (pc # "raised" /\ TreeEq(result, tree))

IndexKeys(d, p, sep) == {p \o sep \o Str(i) : i \in 0..(Len(d.val) - 1)}

IndexTerminated(d, sep) ==
    /\ Len(d.val) > 0
    /\ \E p \in Segments : ~IsDigit(p) /\ DictKeys(d) = IndexKeys(d, p, sep)

IndexedList(d, p, sep) == List([i \in 1..Len(d.val) |-> DictGet(d, p \o sep \o Str(i - 1))])

\* C2: for a flat mapping whose keys are p<sep>0 .. p<sep>(n-1), p a non-digit
\* segment, with scalar values v0 .. v(n-1), unflatten returns {p: [v0 .. v(n-1)]}.
C2_IndexKeysGiveList ==
    (mode = "unflatten" /\ IndexTerminated(flat, separator) /\ Ended)
        => \E p \in Segments :
              /\ DictKeys(flat) = IndexKeys(flat, p, separator)
              /\ pc # "raised"
              /\ TreeEq(result, Dict(<<<<p, IndexedList(flat, p, separator)>>>>))

\* C3: unflatten never raises: for every flat mapping with string keys the
\* call returns a tree.
C3_UnflattenNeverRaises == mode = "unflatten" => pc # "raised"

\* C4: unflatten never raises on what flatten returned for a tree with a dict
\* root (no max_depth, the same separator for both calls).
C4_NoRaiseOnFlattenOutput == (mode = "roundtrip" /\ max_depth = {}) => pc # "raised"

\* C5: when unflatten returns at a pair whose path conflicts with the kind of
\* a container, the returned tree is the tree built from the pairs before it:
\* the conflicting pair leaves no container, no padding and no value.
C5_ConflictLeavesNoTrace == pc = "aborted" => result = prev

(***************************************************************************)
(* ListSlots(x, path): the <<path, element>> of every position of every    *)
(* list in x, path being the segments from the root (a list index as its   *)
(* decimal string).  Addressed(path): some pair unflatten has gone through *)
(* has a key whose segments begin with path.                               *)
(***************************************************************************)
RECURSIVE ListSlots(_, _)
ListSlots(x, path) ==
    CASE x.kind = "scalar" -> {}
      [] x.kind = "list" ->
            UNION {{<<path \o <<Str(i - 1)>>, x.val[i]>>}
                        \cup ListSlots(x.val[i], path \o <<Str(i - 1)>>) : i \in 1..Len(x.val)}
      [] x.kind = "dict" ->
            UNION {ListSlots(x.val[i][2], path \o <<x.val[i][1]>>) : i \in 1..Len(x.val)}

Canon(part) == IF IsDigit(part) THEN Str(ToInt(part)) ELSE part

IsPrefix(path, parts) ==
    /\ Len(path) <= Len(parts)
    /\ \A i \in 1..Len(path) : Canon(parts[i]) = path[i]

Gone == IF pc = "unflatten" THEN pos - 1 ELSE IF pc = "returned" THEN Len(flat.val) ELSE pos

Addressed(path) == \E i \in 1..Gone : IsPrefix(path, Parts(flat.val[i][1]))

\* C6: in every list unflatten builds, every position that no input key
\* addressed holds None, in lists grown at a final segment and in lists grown
\* at an intermediate digit-only segment alike.
C6_GapsHoldNone ==
    (mode = "unflatten" /\ pc \in {"returned", "aborted"})
        => \A slot \in ListSlots(result, <<>>) : Addressed(slot[1]) \/ slot[2] = None

(***************************************************************************)
(* Positions of a tree, named from the tree alone.  A path is the sequence *)
(* of segments from the root: a mapping key, or a list index as its        *)
(* decimal string.  WritePositions: the places where flatten stores an     *)
(* entry (a pair met at max_depth, a scalar value, a scalar element), each *)
(* as the sequence of child numbers leading to it.  PairsMet: every (key,  *)
(* value) pair the loop over data.items() can meet, with its new_key and   *)
(* the depth of the call that meets it.  Leaves: every scalar of the tree. *)
(***************************************************************************)
RECURSIVE WritePositions(_, _, _, _)
RECURSIVE ListWritePositions(_, _, _, _)

WritePositions(data, md, depth, at) ==
    UNION {LET v == data.val[i][2]
               here == at \o <<i>>
           IN IF AtMaxDepth(md, depth) THEN {here}
              ELSE IF IsDict(v) THEN WritePositions(v, md, depth + 1, here)
              ELSE IF IsList(v) THEN ListWritePositions(v, md, depth, here)
              ELSE {here} : i \in 1..Len(data.val)}

ListWritePositions(lst, md, depth, at) ==
    UNION {LET item == lst.val[j]
               here == at \o <<j>>
           IN IF IsDict(item) THEN WritePositions(item, md, depth + 1, here)
              ELSE IF IsList(item)
                  THEN WritePositions(Dict(<<<<Str(j - 1), item>>>>), md, depth + 1, here)
              ELSE {here} : j \in 1..Len(lst.val)}

RECURSIVE PairsMet(_, _, _, _)
RECURSIVE ListPairsMet(_, _, _, _)

PairsMet(data, sep, prefix, depth) ==
    UNION {LET v == data.val[i][2]
               new_key == NewKey(prefix, sep, data.val[i][1])
           IN {[key |-> new_key, value |-> v, depth |-> depth]}
                  \cup (IF IsDict(v) THEN PairsMet(v, sep, new_key, depth + 1)
                        ELSE IF IsList(v) THEN ListPairsMet(v, sep, new_key, depth)
                        ELSE {}) : i \in 1..Len(data.val)}

ListPairsMet(lst, sep, new_key, depth) ==
    UNION {LET item == lst.val[j]
           IN IF IsDict(item) THEN PairsMet(item, sep, ListKey(new_key, sep, j - 1), depth + 1)
              ELSE IF IsList(item)
                  THEN PairsMet(Dict(<<<<Str(j - 1), item>>>>), sep, new_key, depth + 1)
              ELSE {} : j \in 1..Len(lst.val)}

RECURSIVE Leaves(_, _)
Leaves(x, path) ==
    CASE x.kind = "scalar" -> {[path |-> path, value |-> x]}
      [] x.kind = "list" -> UNION {Leaves(x.val[j], path \o <<Str(j - 1)>>) : j \in 1..Len(x.val)}
      [] x.kind = "dict" ->
            UNION {Leaves(x.val[i][2], path \o <<x.val[i][1]>>) : i \in 1..Len(x.val)}

Pairs(d) == {d.val[i] : i \in 1..Len(d.val)}

CleanKeys(x, sep) == \A k \in KeysOf(x) : Len(k) > 0 /\ ~Contains(k, sep)

OneCharSeparator(sep) == Len(sep) = 1 /\ sep[1] \notin DigitChars

StartsWith(s, pre) == Len(pre) <= Len(s) /\ SubSeq(s, 1, Len(pre)) = pre

\* C7: flatten never derives the same path key for two leaf positions: the
\* output has as many entries as flatten stored, none overwritten.
C7_PathKeysUnique ==
    Flattened => Len(flat.val) = Cardinality(WritePositions(tree, max_depth, 0, <<>>))

\* C7 as amended: for a tree whose mapping keys are non-empty and do not
\* contain the separator, the separator being one non-digit character, the
\* output has as many entries as flatten stored.
C7_PathKeysUniqueCleanKeys ==
    (Flattened /\ CleanKeys(tree, separator) /\ OneCharSeparator(separator))
        => Len(flat.val) = Cardinality(WritePositions(tree, max_depth, 0, <<>>))

C7_Witness ==
    /\ Flattened /\ CleanKeys(tree, separator) /\ OneCharSeparator(separator)
    /\ Len(flat.val) >= 3
    /\ \E k \in DictKeys(flat) : Len(Parts(k)) >= 2 /\ IsDigit(Parts(k)[2])

VerbatimAt(m) ==
    LET k == m.key
    IN /\ DictHas(flat, k)
       /\ DictGet(flat, k) = m.value
       /\ m.value.kind # "scalar"
             => \A other \in DictKeys(flat) : ~StartsWith(other, k \o separator)

Chain == Dict(<<<<<<"b">>, Dict(<<<<<<"b">>, Dict(<<<<<<"b">>, Dict(<<<<<<"b">>, Scalar("v1")>>>>)>>>>)>>>>)>>>>)

ChainCut ==
    Dict(<<<<<<"b", ".", "b">>, Dict(<<<<<<"b">>, Dict(<<<<<<"b">>, Scalar("v1")>>>>)>>>>)>>>>)

\* C8: flatten with max_depth = d stores every (key, value) pair it meets at
\* depth d under its path key with the value as it is, a dict or list
\* included, and stores no key from inside such a value; the chain
\* b > b > b > b with max_depth 1 gives exactly {b.b: {b: {b: v1}}}.
C8_DepthLimit ==
    Flattened =>
        /\ \A m \in PairsMet(tree, separator, <<>>, 0) : max_depth = {m.depth} => VerbatimAt(m)
        /\ (tree = Chain /\ max_depth = {1} /\ separator = Dot) => flat = ChainCut

\* C8 as amended: the same, for a tree whose mapping keys are non-empty and do
\* not contain the separator, the separator being one non-digit character.
C8_DepthLimitCleanKeys ==
    (Flattened /\ CleanKeys(tree, separator) /\ OneCharSeparator(separator))
        => /\ \A m \in PairsMet(tree, separator, <<>>, 0) : max_depth = {m.depth} => VerbatimAt(m)
           /\ (tree = Chain /\ max_depth = {1} /\ separator = Dot) => flat = ChainCut

C8_Witness ==
    /\ Flattened /\ CleanKeys(tree, separator) /\ OneCharSeparator(separator)
    /\ max_depth = {1}
    /\ \E i \in 1..Len(flat.val) : IsDict(flat.val[i][2]) /\ Len(flat.val[i][2].val) > 0
    /\ \E i \in 1..Len(flat.val) : flat.val[i][2].kind = "scalar"

LeafEntries == {<<Join(l.path, separator), l.value>> : l \in Leaves(tree, <<>>)}

\* C9: for a tree whose mapping keys are non-empty and do not contain the
\* separator, flatten without max_depth returns exactly one entry per scalar
\* leaf, keyed by the separator-joined mapping keys and decimal list indices
\* on the path from the root, with the leaf as value.
C9_LeafPaths ==
    (Flattened /\ max_depth = {} /\ CleanKeys(tree, separator))
        => /\ Pairs(flat) = LeafEntries
           /\ Len(flat.val) = Cardinality(Leaves(tree, <<>>))

\* C9 as amended: the same, the separator being one non-digit character.
C9_LeafPathsOneChar ==
    (Flattened /\ max_depth = {} /\ CleanKeys(tree, separator) /\ OneCharSeparator(separator))
        => /\ Pairs(flat) = LeafEntries
           /\ Len(flat.val) = Cardinality(Leaves(tree, <<>>))

C9_Witness ==
    /\ Flattened /\ max_depth = {} /\ CleanKeys(tree, separator) /\ OneCharSeparator(separator)
    /\ Len(flat.val) >= 2
    /\ \E k \in DictKeys(flat) : Len(Parts(k)) = 3 /\ IsDigit(Parts(k)[2]) /\ ~IsDigit(Parts(k)[3])
    /\ \E k \in DictKeys(flat) : Len(Parts(k)) = 2 /\ IsDigit(Parts(k)[2])

RECURSIVE MappingsOnly(_)
MappingsOnly(x) ==
    \/ x.kind = "scalar"
    \/ /\ x.kind = "dict"
       /\ Len(x.val) > 0
       /\ \A i \in 1..Len(x.val) : MappingsOnly(x.val[i][2])

PlainKeys(x, sep) == \A k \in KeysOf(x) : Len(k) > 0 /\ ~IsDigit(k) /\ ~Contains(k, sep)

\* C10: for every non-empty separator s and every tree of nested dicts with
\* scalar leaves whose keys are non-empty, not digit-only and do not contain
\* s, flatten joins the segments with s and unflatten(flatten(tree, s), s)
\* equals the tree.
C10_CustomSeparatorInverse ==
    (Flattened /\ max_depth = {} /\ Len(separator) > 0
            /\ (tree = EmptyDict \/ MappingsOnly(tree)) /\ PlainKeys(tree, separator))
        => /\ Pairs(flat) = LeafEntries
           /\ Ended => (pc = "returned" /\ TreeEq(result, tree))

\* C10 as amended: the same, for every separator of one character.
C10_OneCharSeparatorInverse ==
    (Flattened /\ max_depth = {} /\ Len(separator) = 1
            /\ (tree = EmptyDict \/ MappingsOnly(tree)) /\ PlainKeys(tree, separator))
        => /\ Pairs(flat) = LeafEntries
           /\ Ended => (pc = "returned" /\ TreeEq(result, tree))

C10_Witness ==
    /\ Flattened /\ max_depth = {} /\ separator = Slash /\ pc = "returned"
    /\ MappingsOnly(tree) /\ PlainKeys(tree, separator)
    /\ Len(flat.val) >= 2
    /\ \E k \in DictKeys(flat) : Len(Parts(k)) >= 3
    /\ TreeEq(result, tree)

(***************************************************************************)
(* ItemsMet: every dict that is an element of a list flatten goes through, *)
(* with its list_key.  Emitted(m): the output has the value of m under the *)
(* key of m.                                                               *)
(***************************************************************************)
RECURSIVE ItemsMet(_, _, _)
RECURSIVE ListItemsMet(_, _, _)

ItemsMet(data, sep, prefix) ==
    UNION {LET v == data.val[i][2]
               new_key == NewKey(prefix, sep, data.val[i][1])
           IN IF v.kind = "dict" THEN ItemsMet(v, sep, new_key)
              ELSE IF v.kind = "list" THEN ListItemsMet(v, sep, new_key)
              ELSE {} : i \in 1..Len(data.val)}

ListItemsMet(lst, sep, new_key) ==
    UNION {LET item == lst.val[j]
           IN IF item.kind = "dict"
                  THEN {[key |-> ListKey(new_key, sep, j - 1), value |-> item]}
                           \cup ItemsMet(item, sep, ListKey(new_key, sep, j - 1))
              ELSE IF item.kind = "list"
                  THEN ItemsMet(Dict(<<<<Str(j - 1), item>>>>), sep, new_key)
              ELSE {} : j \in 1..Len(lst.val)}

IsEmpty(x) == x = EmptyDict \/ x = EmptyList

Emitted(m) == DictHas(flat, m.key) /\ DictGet(flat, m.key) = m.value

EmptyInAndOut ==
    /\ (Flattened /\ tree = EmptyDict) => flat = EmptyDict
    /\ (mode = "unflatten" /\ flat = EmptyDict /\ Ended) => (pc = "returned" /\ result = EmptyDict)

\* C13: flatten({}) is {} and unflatten({}) is {}; an empty dict or an empty
\* list at any position of the tree puts no entry in flatten's output.
C13_EmptyContainers ==
    /\ EmptyInAndOut
    /\ Flattened =>
          /\ \A m \in PairsMet(tree, separator, <<>>, 0) : IsEmpty(m.value) => ~Emitted(m)
          /\ \A m \in ItemsMet(tree, separator, <<>>) : IsEmpty(m.value) => ~Emitted(m)

\* C13 as amended: the same for every empty container that flatten does not
\* meet as the value of a pair at depth >= max_depth (there it is stored as
\* it is), in a tree whose keys are non-empty and do not contain the
\* separator, the separator being one non-digit character.
C13_EmptyContainersAboveMaxDepth ==
    /\ EmptyInAndOut
    /\ (Flattened /\ CleanKeys(tree, separator) /\ OneCharSeparator(separator)) =>
          /\ \A m \in PairsMet(tree, separator, <<>>, 0) :
                (IsEmpty(m.value) /\ \A d \in max_depth : m.depth < d) => ~Emitted(m)
          /\ \A m \in ItemsMet(tree, separator, <<>>) : IsEmpty(m.value) => ~Emitted(m)

C13_Witness ==
    /\ Flattened /\ CleanKeys(tree, separator) /\ OneCharSeparator(separator)
    /\ max_depth = {1}
    /\ \E m \in PairsMet(tree, separator, <<>>, 0) : m.value = EmptyList /\ m.depth = 0
    /\ \E m \in ItemsMet(tree, separator, <<>>) : m.value = EmptyDict
    /\ Len(flat.val) = 1

\* C11: neither flatten nor unflatten modifies its input: every step of
\* flatten leaves the tree, and every step of unflatten leaves the flat
\* mapping with every container reachable from it, as it was before the call.
C11_InputsUnmodified ==
    [][/\ FlattenCall => tree' = tree
       /\ UnflattenStep => flat' = flat]_vars

(***************************************************************************)
(* ListsInLists: every list that is an element of a list which is the      *)
(* value of a pair flatten goes through: the new_key of the pair, the      *)
(* index i of the inner list, the inner list, and the depth of the call    *)
(* that meets the pair.                                                    *)
(***************************************************************************)
ListsInLists ==
    UNION {{[new_key |-> m.key, i |-> i - 1, inner |-> m.value.val[i], depth |-> m.depth] :
               i \in {j \in 1..Len(m.value.val) : m.value.val[j].kind = "list"}} :
             m \in {n \in PairsMet(tree, separator, <<>>, 0) : n.value.kind = "list"}}

InnerKey(n, j) == n.new_key \o separator \o Str(n.i) \o separator \o Str(j)

Exists(x, path) ==
    \A n \in 0..(Len(path) - 1) :
        LET at == Subtree(x, Stored(SubSeq(path, 1, n)))
        IN \/ IsDict(at) /\ DictHas(at, path[n + 1])
           \/ IsList(at) /\ IsDigit(path[n + 1]) /\ ToInt(path[n + 1]) < Len(at.val)

C12_NonMappingRootRejected ==
    ~IsDict(document) =>
        /\ out_file \in {Absent, OldFile}
        /\ output = <<>>
        /\ result = EmptyDict
        /\ pc \notin {"dump", "done"}
        /\ (mode = "process_file" /\ file_mode \in {"flatten", "unflatten"} /\ pc # "load"
                /\ pc # "dispatch") => (pc = "raised" /\ raised = "ValueError")
        /\ (mode = "flatten" /\ pc # "call") => (pc = "raised" /\ raised # "")

C12_Witness ==
    /\ mode = "process_file" /\ file_mode = "unflatten" /\ output_path # NoPath
    /\ IsList(document) /\ Len(document.val) > 0
    /\ pc = "raised" /\ raised = "ValueError" /\ out_file = Absent

\* C14: csv_merge main run with --dry-run on files it can merge returns 0,
\* prints the statistics, and the output path does not exist afterwards.
C14_DryRunWritesNoFile ==
    (mode = "csv_merge" /\ dry_run /\ pc = "exit" /\ raised = "")
        => /\ exit = 0
           /\ \E i \in 1..Len(stdout) : stdout[i][1] = "Files processed: "
           /\ out_file = Absent

(***************************************************************************)
(* RowsRead: the rows of all the input files in the order they are read,   *)
(* each as DictReader yields it, with the source column when add_source is *)
(* on.  Repeats(rows): the positions of the rows that have the same pairs  *)
(* as a row before them.                                                   *)
(***************************************************************************)
RECURSIVE RowsOf(_, _)
RowsOf(file, n) ==
    IF DataLines(file, n) = {} THEN <<>>
    ELSE LET i == Min(DataLines(file, n))
             read == DictRow(ReaderFieldnames(file).names, file.lines[i])
         IN <<IF add_source THEN DictSet(read, <<"_source_file">>, <<file.name>>) ELSE read>>
                \o RowsOf(file, i + 1)

RECURSIVE RowsRead(_)
RowsRead(f) == IF f > Len(inputs) THEN <<>> ELSE RowsOf(inputs[f], 2) \o RowsRead(f + 1)

Repeats(rows) == {i \in 1..Len(rows) : \E j \in 1..(i - 1) : RowTuple(rows[j]) = RowTuple(rows[i])}

\* C15: when a rows-mode merge returns, files_processed is the number of
\* input files, rows_total the number of data rows read over all files, and
\* rows_written = rows_total - duplicates_removed, where duplicates_removed
\* counts, with deduplicate on, the rows whose field/value pairs a row kept
\* before them has, and is 0 with deduplicate off.
C15_RowMergeStatistics ==
    (mode = "csv_merge" /\ pc \in {"report", "exit"} /\ raised = "")
        => /\ stats.files_processed = Len(inputs)
           /\ stats.rows_total = Len(RowsRead(1))
           /\ stats.rows_written = stats.rows_total - stats.duplicates_removed
           /\ stats.duplicates_removed =
                 IF deduplicate THEN Cardinality(Repeats(RowsRead(1))) ELSE 0
           /\ Len(out_file.text) = stats.rows_written + 1
           /\ \A i \in 1..Len(all_rows) : i \notin Repeats(all_rows) \/ ~deduplicate

C15_Witness ==
    /\ mode = "csv_merge" /\ pc = "exit" /\ raised = "" /\ deduplicate
    /\ Len(inputs) = 2
    /\ stats = [files_processed |-> 2, rows_total |-> 3, rows_written |-> 2,
                duplicates_removed |-> 1]

(***************************************************************************)
(* env_template: what the template holds for each line of the env file.    *)
(***************************************************************************)
\* The text of a KEY=VALUE line after its first "=", up to the line end.
RawValue(raw) == After(RStrip(raw, LineEnds))

RawKey(raw) == Strip(Before(raw), Whitespace)

\* The key holds the word of one of the patterns in use, whatever the case.
MatchesSensitive(raw) ==
    \E n \in 1..Len(IF patterns = <<>> THEN DEFAULT_SENSITIVE_PATTERNS ELSE patterns) :
        LET word == (IF patterns = <<>> THEN DEFAULT_SENSITIVE_PATTERNS ELSE patterns)[n]
        IN \E i \in 1..(Len(RawKey(raw)) - Len(word) + 1) :
              Lower(SubSeq(RawKey(raw), i, i + Len(word) - 1)) = Lower(word)

LinesDone == IF mode = "env_template" /\ pc \in {"lines", "print", "exit"} THEN 1..Len(template_lines) ELSE {}

Masked ==
    \A i \in LinesDone :
        LET raw == env_files[run].lines[i]
        IN (~keep_values /\ IsAssignment(raw) /\ MatchesSensitive(raw))
              => template_lines[i] = RawKey(raw) \o <<"=">> \o placeholder

DiffersInSensitiveValuesOnly ==
    /\ Len(env_files[1].lines) = Len(env_files[2].lines)
    /\ \A i \in 1..Len(env_files[1].lines) :
          \/ env_files[1].lines[i] = env_files[2].lines[i]
          \/ /\ IsAssignment(env_files[1].lines[i]) /\ IsAssignment(env_files[2].lines[i])
             /\ Before(env_files[1].lines[i]) = Before(env_files[2].lines[i])
             /\ MatchesSensitive(env_files[1].lines[i])

SameTemplates ==
    (mode = "env_template" /\ ~keep_values /\ Len(templates) = 2 /\ DiffersInSensitiveValuesOnly)
        => templates[1] = templates[2]

OnlyQuotesStripped ==
    \A i \in LinesDone :
        LET raw == env_files[run].lines[i]
        IN (~keep_values /\ IsAssignment(raw) /\ ~MatchesSensitive(raw))
              => template_lines[i] = RawKey(raw) \o <<"=">> \o Strip(RawValue(raw), Quotes)

SpaceAndQuotesStripped ==
    \A i \in LinesDone :
        LET raw == env_files[run].lines[i]
        IN (~keep_values /\ IsAssignment(raw) /\ ~MatchesSensitive(raw))
              => template_lines[i]
                    = RawKey(raw) \o <<"=">> \o Strip(Strip(RawValue(raw), Whitespace), Quotes)

\* C16: with keep_values off every KEY=VALUE line with a sensitive key is
\* emitted as KEY=<placeholder>, two env files that differ only in the values
\* of sensitive keys give the same template, and the value of a key that is
\* not sensitive is emitted unchanged apart from stripped surrounding quotes.
C16_NoLeakQuotesOnly == Masked /\ SameTemplates /\ OnlyQuotesStripped

\* C16: as above, the value of a key that is not sensitive being emitted with
\* its surrounding whitespace stripped and then its surrounding quotes.
C16_NoLeak == Masked /\ SameTemplates /\ SpaceAndQuotesStripped

C16_Witness ==
    /\ mode = "env_template" /\ pc = "exit" /\ run = 2 /\ ~keep_values /\ patterns = <<>>
    /\ Len(templates) = 2
    /\ env_files[1].lines = << <<"K", "E", "Y", "=", "v", "\n">>, <<"P", "=", " ", "v", "\"", "\n">> >>
    /\ env_files[2].lines = << <<"K", "E", "Y", "=", "'", "w", "'", "\n">>,
                               <<"P", "=", " ", "v", "\"", "\n">> >>
    /\ templates[2] = <<"K", "E", "Y", "=">> \o placeholder \o <<"\n", "P", "=", "v", "\n">>

MentionsNotFound(printed) ==
    \E line \in {printed[i] : i \in 1..Len(printed)} :
        \E n \in 1..Len(line) : line[n] = "Environment file not found: "

\* C18: when the input file is missing main returns 1, the message with
\* "not found" is on standard error and not on standard output, and no
\* template file is written.
C18_MissingInput ==
    (mode = "env_template" /\ pc = "exit" /\ ~env_files[run].exists)
        => /\ exit = 1
           /\ MentionsNotFound(stderr)
           /\ ~MentionsNotFound(stdout)
           /\ out_file = Absent

(***************************************************************************)
(* validate_csv: the duplicates of a unique field.                         *)
(***************************************************************************)
UniqueFields == {rules[k].field : k \in {n \in 1..Len(rules) : rules[n].unique}}

RowsValidated == IF mode = "validate_csv" THEN 1..(row_no - 1) ELSE {}

NonBlank(value) == value # <<>> /\ \E i \in 1..Len(value[1]) : value[1][i] \notin {" ", "\t", "\n", "\r"}

OccurredEarlier(i, f) ==
    /\ NonBlank(csv_rows[i][f])
    /\ \E j \in 1..(i - 1) : csv_rows[j][f] = csv_rows[i][f]

DuplicatesOf(i, f) ==
    {k \in 1..Len(validation_result.duplicates) :
        /\ validation_result.duplicates[k].row = (IF skip_header THEN i + 1 ELSE i)
        /\ validation_result.duplicates[k].field = f}

\* C17: for a field with unique set, duplicates holds one entry for every
\* row whose non-blank value already occurred in an earlier row of the field
\* and none for any other row, so that the entries of the field number its
\* non-blank occurrences minus its distinct non-blank values; and the result
\* is not valid when duplicates is not empty.
C17_UniqueDuplicates ==
    /\ \A f \in UniqueFields :
          /\ \A i \in RowsValidated :
                /\ Cardinality(DuplicatesOf(i, f)) = (IF OccurredEarlier(i, f) THEN 1 ELSE 0)
                /\ \A k \in DuplicatesOf(i, f) :
                      validation_result.duplicates[k].value = csv_rows[i][f]
          /\ Cardinality(UNION {DuplicatesOf(i, f) : i \in RowsValidated})
                = Cardinality({i \in RowsValidated : NonBlank(csv_rows[i][f])})
                    - Cardinality({csv_rows[i][f] : i \in {n \in RowsValidated : NonBlank(csv_rows[n][f])}})
    /\ (mode = "validate_csv" /\ pc = "done" /\ Len(validation_result.duplicates) > 0)
          => ~validation_result.valid

(***************************************************************************)
(* unflatten: the structural conflicts, told from the tree built so far    *)
(* and the segments of a key.  Needed(parts, i): the child reached through *)
(* parts[i] is to be a list.  Reached(cur, parts, i): the child the walk   *)
(* descends into from cur through the intermediate segment parts[i].       *)
(* ConflictFrom: from cur at parts[i] the walk comes to a digit-only       *)
(* segment at a value that is no list, or to a final segment that is not   *)
(* digit-only at a value that is no dict.                                  *)
(***************************************************************************)
IsIndexSegment(part) == Len(part) > 0 /\ \A n \in 1..Len(part) : part[n] \in DigitChars

Needed(parts, i) == i + 1 < Len(parts) /\ IsIndexSegment(parts[i + 1])

Reached(cur, parts, i) ==
    IF IsIndexSegment(parts[i])
    THEN IF ToInt(parts[i]) < Len(cur.val)
            /\ cur.val[ToInt(parts[i]) + 1].kind = (IF Needed(parts, i) THEN "list" ELSE "dict")
         THEN cur.val[ToInt(parts[i]) + 1]
         ELSE IF Needed(parts, i) THEN EmptyList ELSE EmptyDict
    ELSE IF parts[i] \in DictKeys(cur) THEN DictGet(cur, parts[i])
         ELSE IF Needed(parts, i) THEN EmptyList ELSE EmptyDict

RECURSIVE ConflictFrom(_, _, _)
ConflictFrom(cur, parts, i) ==
    IF IsIndexSegment(parts[i])
    THEN cur.kind # "list" \/ (i < Len(parts) /\ ConflictFrom(Reached(cur, parts, i), parts, i + 1))
    ELSE IF i = Len(parts) THEN cur.kind # "dict"
         ELSE cur.kind = "dict" /\ ConflictFrom(Reached(cur, parts, i), parts, i + 1)

ConflictNext ==
    /\ pc = "unflatten" /\ pos <= Len(flat.val) /\ Len(separator) > 0
    /\ ConflictFrom(result, Split(flat.val[pos][1], separator), 1)

\* C21: when the pair unflatten comes to has a structural conflict, and only
\* then, the call returns at that pair, and nothing happens after the return:
\* no pair after the conflicting one is gone through and the returned tree
\* stays as it was.
C21_AbortStopsCall ==
    [][/\ ConflictNext <=> (pc' = "aborted" /\ pos' = pos)
       /\ pc # "aborted"]_vars

C21_Witness == pc = "aborted" /\ pos < Len(flat.val) /\ mode = "unflatten"

(***************************************************************************)
(* Built(n): the tree the first n pairs of flat build, each walked into    *)
(* the tree the pairs before it left.                                      *)
(***************************************************************************)
RECURSIVE Built(_)
Built(n) ==
    IF n = 0 THEN EmptyDict
    ELSE UnflattenPair(Built(n - 1), flat.val[n][1], flat.val[n][2], separator).node

\* The pair at position j, walked into the tree as it is now, has no conflict
\* and raises nothing, and its value is not where its key leads.
AbsentPair(j) ==
    LET r == UnflattenPair(result, flat.val[j][1], flat.val[j][2], separator)
    IN r.st = "ok" /\ r.node # result

RECURSIVE CurrentAt(_, _, _, _)
CurrentAt(cur, parts, i, n) ==
    IF i = n THEN {cur}
    ELSE IF cur.kind # (IF IsIndexSegment(parts[i]) THEN "list" ELSE "dict") THEN {}
    ELSE CurrentAt(Reached(cur, parts, i), parts, i + 1, n)

RECURSIVE Includes(_, _)
Includes(new, old) ==
    /\ new.kind = old.kind
    /\ CASE old.kind = "scalar" -> new = old
         [] old.kind = "list" ->
               /\ Len(new.val) >= Len(old.val)
               /\ \A e \in 1..Len(old.val) : Includes(new.val[e], old.val[e])
         [] old.kind = "dict" ->
               \A k \in DictKeys(old) : DictHas(new, k) /\ Includes(DictGet(new, k), DictGet(old, k))

RECURSIVE KeptBut(_, _, _, _)
KeptBut(x, y, parts, j) ==
    IF x.kind = "dict" /\ ~IsIndexSegment(parts[j])
    THEN /\ y.kind = "dict"
         /\ \A k \in DictKeys(x) :
               /\ DictHas(y, k)
               /\ IF k # parts[j] THEN DictGet(y, k) = DictGet(x, k)
                  ELSE \/ j = Len(parts)
                       \/ /\ DictGet(y, k).kind = DictGet(x, k).kind
                          /\ KeptBut(DictGet(x, k), DictGet(y, k), parts, j + 1)
    ELSE IF x.kind = "list" /\ IsIndexSegment(parts[j])
    THEN /\ y.kind = "list"
         /\ Len(y.val) >= Len(x.val)
         /\ \A e \in 1..Len(x.val) :
               IF e # ToInt(parts[j]) + 1 THEN y.val[e] = x.val[e]
               ELSE \/ j = Len(parts)
                    \/ x.val[e].kind # (IF Needed(parts, j) THEN "list" ELSE "dict")
                    \/ KeptBut(x.val[e], y.val[e], parts, j + 1)
    ELSE y = x

\* The non-digit intermediate segments of the pair at hand that the walk
\* comes to and finds in the dict it stands in.
PresentSegments ==
    LET parts == Split(flat.val[pos][1], separator)
    IN {i \in 1..(Len(parts) - 1) :
          /\ ~IsIndexSegment(parts[i])
          /\ \E c \in CurrentAt(result, parts, 1, i) : c.kind = "dict" /\ parts[i] \in DictKeys(c)}

\* C23: when the walk comes to a non-digit intermediate segment that is in
\* the dict it stands in, the child is not replaced, whatever its kind, and
\* everything the pairs before stored under the child is still there after
\* the pair is gone through.
C23_PresentChildKeepsAll ==
    [][(UnflattenStep /\ Len(separator) > 0) =>
          LET parts == Split(flat.val[pos][1], separator)
          IN \A i \in PresentSegments :
                Includes(Subtree(result', Stored(SubSeq(parts, 1, i))),
                         Subtree(result, Stored(SubSeq(parts, 1, i))))]_vars

\* C23: when the walk comes to a non-digit intermediate segment that is in
\* the dict it stands in, the child is not replaced, whatever its kind: after
\* the pair is gone through the child is of the kind it was and holds
\* everything it held but what lies on the rest of the pair's path, the value
\* at the final segment and an element of the wrong kind at a digit-only
\* segment.
C23_PresentChildKept ==
    [][(UnflattenStep /\ Len(separator) > 0) =>
          LET parts == Split(flat.val[pos][1], separator)
          IN \A i \in PresentSegments :
                LET old == Subtree(result, Stored(SubSeq(parts, 1, i)))
                    new == Subtree(result', Stored(SubSeq(parts, 1, i)))
                IN new.kind = old.kind /\ KeptBut(old, new, parts, i + 1)]_vars

\* Two pairs gone through, the second through a child the first made, with
\* what the first stored under the child no longer there.
C23_Witness ==
    /\ mode = "unflatten" /\ pc = "unflatten" /\ pos = 3 /\ separator = Dot
    /\ flat.val[1][1] = <<"b", ".", "b", ".", "b">>
    /\ flat.val[2][1] = <<"b", ".", "b">>
    /\ result = Dict(<<<<<<"b">>, Dict(<<<<<<"b">>, flat.val[2][2]>>>>)>>>>)

\* The digit-only intermediate segments of the pair at hand that the walk
\* comes to standing in a list.
IndexSegments ==
    LET parts == Split(flat.val[pos][1], separator)
    IN {i \in 1..(Len(parts) - 1) :
          IsIndexSegment(parts[i]) /\ \E c \in CurrentAt(result, parts, 1, i) : c.kind = "list"}

\* The pair at hand, from its segment j on, walked into an empty container.
WalkedIntoFresh(kind, parts, j) ==
    Walk(IF kind = "list" THEN EmptyList ELSE EmptyDict, parts, j, flat.val[pos][2]).node

\* C24: at a digit-only intermediate segment with index k in a list, the
\* element at k is afterwards a list if the next segment is digit-only and
\* not final, and a dict otherwise; an element of that kind is kept, and any
\* other element (or none) gives way to a fresh empty container, which then
\* holds what the rest of the pair's walk puts there and nothing else.
C24_ElementCoerced ==
    [][(UnflattenStep /\ Len(separator) > 0) =>
          LET parts == Split(flat.val[pos][1], separator)
          IN \A i \in IndexSegments :
                LET c == CHOOSE x \in CurrentAt(result, parts, 1, i) : TRUE
                    k == ToInt(parts[i])
                    kind == IF i + 1 < Len(parts) /\ IsIndexSegment(parts[i + 1])
                            THEN "list" ELSE "dict"
                    new == Subtree(result', Stored(SubSeq(parts, 1, i)))
                IN /\ new.kind = kind
                   /\ IF k < Len(c.val) /\ c.val[k + 1].kind = kind
                      THEN KeptBut(c.val[k + 1], new, parts, i + 1)
                      ELSE new = WalkedIntoFresh(kind, parts, i + 1)]_vars

\* A dict where a list was needed has given way to a list, and what it held
\* is gone.
C24_Witness ==
    /\ mode = "extend" /\ pc = "unflatten" /\ pos = 3
    /\ flat.val[2][1] = <<"b", ".", "0", ".", "0", ".", "b">>
    /\ prev = Dict(<<<<<<"b">>, List(<<Dict(<<<<<<"b">>, None>>>>)>>)>>>>)
    /\ result = Dict(<<<<<<"b">>, List(<<List(<<Dict(<<<<<<"b">>, Scalar("v1")>>>>)>>)>>)>>>>)

\* C25: what flatten or unflatten returns shares no dict and no list with
\* the argument: flatten returns no value that is a container of the tree
\* (the values it stores are the tree's own objects), and no place of the
\* tree unflatten builds holds an object of the flat mapping.
C25_NoAliasing ==
    /\ (mode = "roundtrip" /\ pc # "flatten" /\ pos = 1)
          => \A n \in 1..Len(flat.val) : flat.val[n][2].kind = "scalar"
    /\ aliases = {}

(***************************************************************************)
(* unflatten: a pair whose final segment is digit-only.  ParentPath: the   *)
(* segments of the pair at hand before the final one.  HeldList(x, path):  *)
(* x holds a list at path.                                                 *)
(***************************************************************************)
FinalIndexNext ==
    /\ UnflattenStep /\ Len(separator) > 0
    /\ IsIndexSegment(Split(flat.val[pos][1], separator)[Len(Split(flat.val[pos][1], separator))])

ParentPath == SubSeq(Split(flat.val[pos][1], separator), 1, Len(Split(flat.val[pos][1], separator)) - 1)

HeldList(x, path) == Exists(x, path) /\ Subtree(x, Stored(path)).kind = "list"

ReachesFinal ==
    CurrentAt(result, Split(flat.val[pos][1], separator), 1, Len(Split(flat.val[pos][1], separator))) # {}

LongerKeyBefore ==
    \E j \in 1..(pos - 1) :
        /\ Len(Split(flat.val[j][1], separator)) > Len(ParentPath) + 1
        /\ IsPrefix(Stored(ParentPath), Split(flat.val[j][1], separator))

C27_RootIsMapping ==
    [][/\ pc' \in {"unflatten", "returned", "aborted"} => result'.kind = "dict"
       /\ (UnflattenStep /\ Len(separator) > 0
              /\ IsIndexSegment(Split(flat.val[pos][1], separator)[1]))
             => (pc' = "aborted" /\ result' = result)]_vars

\* A return at a second pair that is the single segment "0", the first pair
\* in the tree and the second not.
C27_Witness ==
    /\ mode = "unflatten" /\ pc = "aborted" /\ pos = 2
    /\ flat.val[2][1] = <<"0">>
    /\ flat.val[1][1] = <<"b">>
    /\ result = Dict(<<<<<<"b">>, flat.val[1][2]>>>>)

\* C28: flatten(tree, max_depth=0) of a tree with a dict root returns the
\* top-level keys of the tree, in their order, each with its own value not
\* expanded: the result equals the tree.
C28_MaxDepthZeroIdentity ==
    [][(FlattenCall /\ max_depth = {0}) => flat' = tree]_vars

\* flatten returned, at max_depth 0, a tree with a dict and a list below the
\* root as it is.
C28_Witness ==
    /\ mode = "roundtrip" /\ max_depth = {0} /\ pc = "unflatten" /\ pos = 1
    /\ Len(tree.val) = 2
    /\ tree.val[1][2].kind = "dict" /\ Len(tree.val[1][2].val) > 0
    /\ tree.val[2][2].kind = "list" /\ Len(tree.val[2][2].val) > 0
    /\ flat = tree

(***************************************************************************)
(* validate_csv and validate_json: the counters of the result.             *)
(***************************************************************************)
RowsGoneThrough == IF mode \in {"validate_csv", "validate_json"} THEN 1..(row_no - 1) ELSE {}

ValueAt(i, f) == IF f \in DOMAIN csv_rows[i] THEN csv_rows[i][f] ELSE <<>>

\* Row i lacks a value for a field that a rule requires.
FailsRequired(i) ==
    \E k \in 1..Len(rules) : rules[k].required /\ ~NonBlank(ValueAt(i, rules[k].field))

\* Row i has the value of an earlier row in a field some rule marks unique.
RepeatsUnique(i) ==
    \E k \in 1..Len(rules) :
        /\ rules[k].unique /\ NonBlank(ValueAt(i, rules[k].field))
        /\ \E j \in 1..(i - 1) : ValueAt(j, rules[k].field) = ValueAt(i, rules[k].field)

\* C29: when validate_csv or validate_json has returned, total_rows is
\* valid_rows + invalid_rows, errors has one item for each invalid row and no
\* other, valid is true iff invalid_rows is 0 and duplicates is empty, and a
\* row that repeats a unique value and fails no rule is one of the valid
\* rows, with an entry in duplicates and none in errors.
C29_CountersConsistent ==
    (mode \in {"validate_csv", "validate_json"} /\ pc = "done") =>
        LET r == validation_result
            invalid == {i \in RowsGoneThrough : FailsRequired(i)}
        IN /\ r.total_rows = Len(csv_rows)
           /\ r.total_rows = r.valid_rows + r.invalid_rows
           /\ Len(r.errors) = r.invalid_rows
           /\ r.invalid_rows = Cardinality(invalid)
           /\ {r.errors[n].row : n \in 1..Len(r.errors)}
                 = {IF skip_header THEN i + 1 ELSE i : i \in invalid}
           /\ r.valid <=> (r.invalid_rows = 0 /\ Len(r.duplicates) = 0)
           /\ \A i \in RowsGoneThrough :
                 (RepeatsUnique(i) /\ ~FailsRequired(i))
                    => /\ \E n \in 1..Len(r.duplicates) :
                             r.duplicates[n].row = (IF skip_header THEN i + 1 ELSE i)
                       /\ \A n \in 1..Len(r.errors) :
                             r.errors[n].row # (IF skip_header THEN i + 1 ELSE i)

\* validate_json returned for three items: one valid, one that only repeats
\* a unique value, one that lacks a required field.
C29_Witness ==
    /\ mode = "validate_json" /\ pc = "done"
    /\ validation_result.total_rows = 3
    /\ validation_result.valid_rows = 2
    /\ validation_result.invalid_rows = 1
    /\ Len(validation_result.duplicates) = 1
    /\ Len(validation_result.errors) = 1
    /\ ~validation_result.valid
    /\ Len(rules) = 1

(***************************************************************************)
(* batch_convert: the files of input_dir the source format names, and      *)
(* those of them whose conversion fails.                                   *)
(***************************************************************************)
Named ==
    {n \in 1..Len(input_dir) :
        input_dir[n].suffix \in (IF source_format = "yaml" THEN {"yaml", "yml"} ELSE {source_format})}

Failing ==
    {n \in Named :
        \/ ~yaml_installed
        \/ target_format \notin {"yaml", "json"}
        \/ target_format = "json" /\ input_dir[n].content \in {"broken", "yaml_date"}
        \/ target_format = "yaml" /\ input_dir[n].content # "json"}

\* C30: batch_convert raises for no file that fails to convert (only for a
\* source format it does not know, before any file); it goes through every
\* matched file, and when it returns processed + failed is the number of
\* matched files, failed the number of files whose conversion failed, and
\* errors holds one message for each of them and no other.
C30_BatchIsolatesFailures ==
    mode = "batch_convert" =>
        /\ pc = "raised" => (source_format \notin {"yaml", "json"} /\ batch_stats = NoBatchStats)
        /\ pc = "returned" =>
              /\ file_idx = Len(files) + 1
              /\ batch_stats.processed + batch_stats.failed = Cardinality(Named)
              /\ batch_stats.failed = Cardinality(Failing)
              /\ Len(batch_stats.errors) = batch_stats.failed
              /\ {batch_stats.errors[n][1].stem : n \in 1..Len(batch_stats.errors)}
                    = {input_dir[n].stem : n \in Failing}

\* batch_convert returned after a file that failed, between two that did not.
C30_Witness ==
    /\ mode = "batch_convert" /\ pc = "returned"
    /\ source_format = "yaml" /\ target_format = "json"
    /\ Len(files) = 3
    /\ files[2].content = "broken"
    /\ batch_stats.processed = 2 /\ batch_stats.failed = 1
    /\ Len(batch_stats.errors) = 1

====
